---- MODULE Spec2Model ----
(***************************************************************************)
(* Model of the nunzio message pipeline (src/nunzio/core.py) over the      *)
(* workout_sets and exercises tables (src/nunzio/database).                *)
(*                                                                         *)
(* Tables are sequences of rows in insertion (primary-key) order.  Every   *)
(* handler runs inside one db_manager.get_session() scope: its writes go   *)
(* to a session copy of the tables that is committed when the block ends   *)
(* normally and discarded when an exception leaves it.                     *)
(***************************************************************************)
EXTENDS Integers, Sequences, FiniteSets, TLC

\* ---------------------------------------------------------------- bounds
MaxRows == 3        \* workout_sets rows the single user of SpecContent may hold
MaxUserRows == 3    \* workout_sets rows each of the two users of Spec may hold
MaxExtract == 2     \* length of the extractor's exercise list
MaxTimes == 2       \* largest repetition count the modifier parser returns
MaxFail == 2        \* latest database write that may raise
MaxBatch == 3       \* largest batch id a request of SpecContent may allocate
MaxUserBatch == 2   \* largest batch id a request of Spec may allocate
MaxLogged == 2      \* length of logged_set_data handed to the commentary alone
MaxPure == 3         \* length of the list handed to _expand_sets alone
MaxMessages == 1    \* message_log rows written before process() is left alone
MaxRequests == 2    \* requests of one user with an open session
MaxRaceRows == 2    \* rows written and about to be written by overlapping requests
MaxDates == 3       \* length of the date list handed to _compute_consistency alone
MaxOverview == 4    \* batches of one set each the overview may find
MaxHistory == 40    \* sessions of one set in the table a log finds
NowPure == 5        \* the day handed to the commentary alone

\* ------------------------------------------------------ program constants
DefaultReps == 10
ThresholdNum == 1
ThresholdDen == 2
GapDays == 3
limit_per_exercise == 20
ListLimit == 10
LogConfidence == 50 \* hundredths
StopAfterAttempt == 3
OverviewLimit == 20
ShownDays == 3

\* Python None for numeric columns and for text columns
None == -1
NoneStr == "<None>"

Users == {1, 2}

\* ------------------------------------------------------------ sequences
Range(s) == {s[i] : i \in DOMAIN s}

RECURSIVE SetMax(_)
SetMax(S) ==
  IF S = {} THEN 0
  ELSE LET x == CHOOSE y \in S : TRUE
           m == SetMax(S \ {x})
       IN IF x > m THEN x ELSE m

\* Lexicographic order on equally long tuples of integers
RECURSIVE LexLess(_, _)
LexLess(a, b) ==
  IF a = <<>> THEN FALSE
  ELSE IF Head(a) < Head(b) THEN TRUE
  ELSE IF Head(a) > Head(b) THEN FALSE
  ELSE LexLess(Tail(a), Tail(b))

\* Stable insertion sort of the index sequence idx by keys[i] ascending
\* (SQL ORDER BY and Python sorted() over integer key tuples).
RECURSIVE InsertSorted(_, _, _)
InsertSorted(idx, x, keys) ==
  IF idx = <<>> THEN <<x>>
  ELSE IF LexLess(keys[x], keys[Head(idx)]) THEN <<x>> \o idx
  ELSE <<Head(idx)>> \o InsertSorted(Tail(idx), x, keys)

RECURSIVE SortIdx(_, _)
SortIdx(n, keys) ==
  IF n = 0 THEN <<>> ELSE InsertSorted(SortIdx(n - 1, keys), n, keys)

SortBy(s, keys) == LET idx == SortIdx(Len(s), keys) IN [i \in DOMAIN s |-> s[idx[i]]]

Take(s, n) == IF Len(s) <= n THEN s ELSE SubSeq(s, 1, n)

\* ------------------------------------------------------- exercise names
\* A name is the sequence of its whitespace-separated words.
Lower(w) ==
  CASE w = "Bench" -> "bench"
    [] w = "Press" -> "press"
    [] w = "Chest" -> "chest"
    [] OTHER -> w

LowerName(n) == [i \in DOMAIN n |-> Lower(n[i])]

BenchPress == <<"Bench", "Press">>
ChestPress == <<"Chest", "Press">>
bench == <<"bench">>
chest_pull == <<"chest", "pull">>

\* Exercise rows present before the first message: Bench Press is seeded by
\* scripts/seed_exercises.py, Chest Press is the catalog exercise of
\* tests/test_exercise_matching.py
SeedExercises ==
  << [id |-> 1, name |-> BenchPress, muscle_group |-> "chest"],
     [id |-> 2, name |-> ChestPress, muscle_group |-> "chest"] >>

\* ExerciseRepository.get_by_name: the row or the empty sequence
get_by_name(ex, name) == SelectSeq(ex, LAMBDA e : e.name = name)

\* ExerciseRepository.score_match, as the fraction num/den
score_match(query, name) ==
  LET q_tokens == Range(LowerName(query))
      n_tokens == Range(LowerName(name))
  IN IF q_tokens = {} \/ n_tokens = {}
       THEN [num |-> 0, den |-> 1]
       ELSE [num |-> Cardinality(q_tokens \cap n_tokens),
             den |-> Cardinality(q_tokens \cup n_tokens)]

ScoreGreater(a, b) == a.num * b.den > b.num * a.den

\* list.sort(key=score, reverse=True): stable, equal scores keep catalog order
RECURSIVE InsertScored(_, _)
InsertScored(s, x) ==
  IF s = <<>> THEN <<x>>
  ELSE IF ScoreGreater(x.score, Head(s).score) THEN <<x>> \o s
  ELSE <<Head(s)>> \o InsertScored(Tail(s), x)

RECURSIVE SortScored(_)
SortScored(s) ==
  IF s = <<>> THEN <<>>
  ELSE InsertScored(SortScored(SubSeq(s, 1, Len(s) - 1)), s[Len(s)])

\* ExerciseRepository.search_scored: (exercise, score) by score descending
search_scored(ex, query) ==
  SortScored([i \in DOMAIN ex |-> [exercise |-> ex[i], score |-> score_match(query, ex[i].name)]])

\* ------------------------------------------------------ extractor output
ExerciseSet(name, sn, reps, w, unit, dur, dist, notes) ==
  [exercise_name |-> name, set_number |-> sn, reps |-> reps, weight |-> w,
   unit |-> unit, duration_minutes |-> dur, distance |-> dist, notes |-> notes]

ExtractedSets ==
  { ExerciseSet(bench, 1, None, 100, "kg", None, None, "sore"),
    ExerciseSet(BenchPress, 2, 0, None, "bodyweight", None, None, NoneStr),
    ExerciseSet(chest_pull, 1, None, None, "lbs", 20, 3, NoneStr) }

\* what extract_workout_data may return; <<>> stands for None and for an
\* empty exercise list
Extractions == UNION {[1..n -> ExtractedSets] : n \in 0..MaxExtract}

\* "bench press 5 reps at 100" and "2 sets of chest press" as one entry
PlainExtractions ==
  { <<>>,
    <<ExerciseSet(BenchPress, 1, 5, 100, "lbs", None, None, NoneStr)>>,
    <<ExerciseSet(ChestPress, 2, 8, None, "lbs", None, None, NoneStr)>> }

\* MessageHandler._expand_sets
name_counts(exercises, name) ==
  Cardinality({i \in DOMAIN exercises : exercises[i].exercise_name = name})

\* model_copy without the update: every copy keeps the entry's set_number
copies_not_renumbered(ex, n) == [i \in 1..n |-> ex]

RECURSIVE Copies(_, _)
Copies(ex, n) ==
  IF n < 1 THEN <<>> ELSE Append(Copies(ex, n - 1), [ex EXCEPT !.set_number = n])

RECURSIVE ExpandFrom(_, _)
ExpandFrom(exercises, i) ==
  IF i > Len(exercises) THEN <<>>
  ELSE LET ex == exercises[i]
       IN (IF name_counts(exercises, ex.exercise_name) = 1 /\ ex.set_number > 1
             THEN Copies(ex, ex.set_number)
             ELSE <<ex>>) \o ExpandFrom(exercises, i + 1)

_expand_sets(exercises) == ExpandFrom(exercises, 1)

\* Reps defaulting of _handle_log_workout
Falsy(x) == x = None \/ x = 0

\* the loop without its cardio guard
needs_default_without_cardio_guard(ex_set) == Falsy(ex_set.reps)

NeedsDefault(ex_set) == Falsy(ex_set.duration_minutes) /\ Falsy(ex_set.reps)

ApplyDefaults(exercises) ==
  [i \in DOMAIN exercises |->
     IF NeedsDefault(exercises[i]) THEN [exercises[i] EXCEPT !.reps = DefaultReps]
     ELSE exercises[i]]

defaulted_reps(exercises) == {i \in DOMAIN exercises : NeedsDefault(exercises[i])}

\* ------------------------------------------------- WorkoutSetRepository
UserRows(ws, user_id) == SelectSeq(ws, LAMBDA r : r.user_id = user_id)

BatchRows(ws, user_id, batch_id) ==
  SelectSeq(ws, LAMBDA r : r.user_id = user_id /\ r.batch_id = batch_id)

BatchIds(ws, user_id) == {ws[i].batch_id : i \in {j \in DOMAIN ws : ws[j].user_id = user_id}}

\* the increment applied only to the empty case: current_max or 1
get_next_batch_id_or_one(ws, user_id) ==
  IF BatchIds(ws, user_id) = {} THEN 1 ELSE SetMax(BatchIds(ws, user_id))

\* the number of the user's batches, plus one
get_next_batch_id_count(ws, user_id) == Cardinality(BatchIds(ws, user_id)) + 1

\* select max(batch_id) where user_id = :user_id, (current_max or 0) + 1
get_next_batch_id(ws, user_id) == SetMax(BatchIds(ws, user_id)) + 1

SetMin(S) == IF S = {} THEN 0 ELSE CHOOSE x \in S : \A y \in S : x <= y

\* func.min in place of func.max
get_oldest_batch_for_user(ws, user_id) ==
  LET rows == BatchRows(ws, user_id, SetMin(BatchIds(ws, user_id)))
  IN SortBy(rows, [i \in DOMAIN rows |-> <<rows[i].set_number>>])

\* rows of the user's highest batch id, ordered by set_number
get_latest_batch_for_user(ws, user_id) ==
  LET rows == BatchRows(ws, user_id, SetMax(BatchIds(ws, user_id)))
  IN SortBy(rows, [i \in DOMAIN rows |-> <<rows[i].set_number>>])

\* both statements without the user_id condition
delete_batch_any_user(ws, batch_id, user_id) ==
  LET sets == SelectSeq(ws, LAMBDA r : r.batch_id = batch_id)
  IN [sets |-> sets,
      ws |-> IF sets # <<>> THEN SelectSeq(ws, LAMBDA r : r.batch_id # batch_id) ELSE ws]

\* the select without the user_id condition
delete_batch_fetch_any(ws, batch_id, user_id) ==
  LET sets == SelectSeq(ws, LAMBDA r : r.batch_id = batch_id)
  IN [sets |-> sets,
      ws |-> IF sets # <<>>
               THEN SelectSeq(ws, LAMBDA r : ~(r.batch_id = batch_id /\ r.user_id = user_id))
               ELSE ws]

\* the delete statement without the user_id condition
delete_batch_unscoped_delete(ws, batch_id, user_id) ==
  LET sets == BatchRows(ws, user_id, batch_id)
  IN [sets |-> sets,
      ws |-> IF sets # <<>> THEN SelectSeq(ws, LAMBDA r : r.batch_id # batch_id) ELSE ws]

\* delete_batch: the rows fetched before the delete, and the table after it
delete_batch(ws, batch_id, user_id) ==
  LET sets == BatchRows(ws, user_id, batch_id)
  IN [sets |-> sets,
      ws |-> IF sets # <<>>
               THEN SelectSeq(ws, LAMBDA r : ~(r.batch_id = batch_id /\ r.user_id = user_id))
               ELSE ws]

\* get_latest_batches: rows of the limit highest batch ids, batch_id desc, set_number
get_latest_batches(ws, user_id, limit) ==
  LET ids == BatchIds(ws, user_id)
      top == {b \in ids : Cardinality({c \in ids : c > b}) < limit}
      rows == SelectSeq(ws, LAMBDA r : r.user_id = user_id /\ r.batch_id \in top)
  IN SortBy(rows, [i \in DOMAIN rows |-> <<0 - rows[i].batch_id, rows[i].set_number>>])

\* get_recent_for_exercises: set_date desc, set_number, limited to
\* limit_per_exercise * len(exercise_ids) rows over all the exercises
get_recent_for_exercises(ws, exercise_ids, user_id, exclude_batch) ==
  IF exercise_ids = {} THEN <<>>
  ELSE LET rows == SelectSeq(ws, LAMBDA r : /\ r.user_id = user_id
                                            /\ r.exercise_id \in exercise_ids
                                            /\ r.batch_id # exclude_batch)
           sorted == SortBy(rows, [i \in DOMAIN rows |-> <<0 - rows[i].set_date, rows[i].set_number>>])
       IN Take(sorted, limit_per_exercise * Cardinality(exercise_ids))

\* ----------------------------------------------------- commentary engine
Remark(kind, name, days) == [kind |-> kind, name |-> name, days |-> days]
NoRemark == Remark("none", <<>>, 0)

FirstWhere(s, P(_)) ==
  LET I == {i \in DOMAIN s : P(s[i])}
  IN IF I = {} THEN 0 ELSE CHOOSE i \in I : \A j \in I : i <= j

HasPainWord(notes) == notes \in {"sore", "knee pain", "hurt"}

\* the weight-increase check placed before the PR check
_generate_log_comment_up_first(logged_sets, history, now) ==
  IF logged_sets = <<>> THEN NoRemark
  ELSE
  LET ex_hist(id) == SelectSeq(history, LAMBDA ws : ws.exercise_id = id)
      firsts == {i \in DOMAIN logged_sets :
                   \A j \in 1..(i - 1) : logged_sets[j].exercise_id # logged_sets[i].exercise_id}
      exercises == SelectSeq([i \in DOMAIN logged_sets |-> [s |-> logged_sets[i], first |-> i \in firsts]],
                             LAMBDA x : x.first)
      max_current(id) ==
        SetMax({logged_sets[i].weight : i \in {j \in DOMAIN logged_sets :
                  logged_sets[j].exercise_id = id /\ ~Falsy(logged_sets[j].weight)}})
      max_historical(id) ==
        SetMax({ex_hist(id)[i].weight : i \in {j \in DOMAIN ex_hist(id) : ex_hist(id)[j].weight # None}})
      most_recent_date(id) == SetMax({ex_hist(id)[i].set_date : i \in DOMAIN ex_hist(id)})
      IsPR(x) == /\ ~(x.s.is_cardio \/ Falsy(x.s.weight))
                 /\ max_historical(x.s.exercise_id) > 0
                 /\ max_current(x.s.exercise_id) > max_historical(x.s.exercise_id)
      IsFirst(x) == ex_hist(x.s.exercise_id) = <<>>
      IsGap(x) == /\ ex_hist(x.s.exercise_id) # <<>>
                  /\ now - most_recent_date(x.s.exercise_id) > GapDays
      IsUp(x) == /\ ~(x.s.is_cardio \/ Falsy(x.s.weight))
                 /\ ex_hist(x.s.exercise_id) # <<>>
                 /\ ~Falsy(ex_hist(x.s.exercise_id)[1].weight)
                 /\ x.s.weight > ex_hist(x.s.exercise_id)[1].weight
      IsPain(s) == s.notes # NoneStr /\ s.notes # "" /\ HasPainWord(s.notes)
      pr == FirstWhere(exercises, IsPR)
      first == FirstWhere(exercises, IsFirst)
      gap == FirstWhere(exercises, IsGap)
      up == FirstWhere(exercises, IsUp)
      pain == FirstWhere(logged_sets, IsPain)
  IN IF up # 0 THEN Remark("up", exercises[up].s.name, 0)
     ELSE IF pr # 0 THEN Remark("pr", exercises[pr].s.name, 0)
     ELSE IF first # 0 THEN Remark("first", exercises[first].s.name, 0)
     ELSE IF gap # 0
       THEN Remark("gap", <<>>, now - most_recent_date(exercises[gap].s.exercise_id))
     ELSE IF pain # 0 THEN Remark("pain", <<>>, 0)
     ELSE NoRemark

\* MessageHandler._generate_log_comment
\* the weight-increase rule looks for the set with the latest timestamp
_generate_log_comment_latest_set(logged_sets, history, now) ==
  IF logged_sets = <<>> THEN NoRemark
  ELSE
  LET ex_hist(id) == SelectSeq(history, LAMBDA ws : ws.exercise_id = id)
      firsts == {i \in DOMAIN logged_sets :
                   \A j \in 1..(i - 1) : logged_sets[j].exercise_id # logged_sets[i].exercise_id}
      exercises == SelectSeq([i \in DOMAIN logged_sets |-> [s |-> logged_sets[i], first |-> i \in firsts]],
                             LAMBDA x : x.first)
      max_current(id) ==
        SetMax({logged_sets[i].weight : i \in {j \in DOMAIN logged_sets :
                  logged_sets[j].exercise_id = id /\ ~Falsy(logged_sets[j].weight)}})
      max_historical(id) ==
        SetMax({ex_hist(id)[i].weight : i \in {j \in DOMAIN ex_hist(id) : ex_hist(id)[j].weight # None}})
      most_recent_date(id) == SetMax({ex_hist(id)[i].set_date : i \in DOMAIN ex_hist(id)})
      latest(id) ==
        ex_hist(id)[CHOOSE k \in DOMAIN ex_hist(id) :
                      \A j \in DOMAIN ex_hist(id) :
                        \/ ex_hist(id)[k].set_date > ex_hist(id)[j].set_date
                        \/ /\ ex_hist(id)[k].set_date = ex_hist(id)[j].set_date
                           /\ ex_hist(id)[k].set_number <= ex_hist(id)[j].set_number]
      IsPR(x) == /\ ~(x.s.is_cardio \/ Falsy(x.s.weight))
                 /\ max_historical(x.s.exercise_id) > 0
                 /\ max_current(x.s.exercise_id) > max_historical(x.s.exercise_id)
      IsFirst(x) == ex_hist(x.s.exercise_id) = <<>>
      IsGap(x) == /\ ex_hist(x.s.exercise_id) # <<>>
                  /\ now - most_recent_date(x.s.exercise_id) > GapDays
      IsUp(x) == /\ ~(x.s.is_cardio \/ Falsy(x.s.weight))
                 /\ ex_hist(x.s.exercise_id) # <<>>
                 /\ ~Falsy(latest(x.s.exercise_id).weight)
                 /\ x.s.weight > latest(x.s.exercise_id).weight
      IsPain(s) == s.notes # NoneStr /\ s.notes # "" /\ HasPainWord(s.notes)
      pr == FirstWhere(exercises, IsPR)
      first == FirstWhere(exercises, IsFirst)
      gap == FirstWhere(exercises, IsGap)
      up == FirstWhere(exercises, IsUp)
      pain == FirstWhere(logged_sets, IsPain)
  IN IF pr # 0 THEN Remark("pr", exercises[pr].s.name, 0)
     ELSE IF first # 0 THEN Remark("first", exercises[first].s.name, 0)
     ELSE IF gap # 0
       THEN Remark("gap", <<>>, now - most_recent_date(exercises[gap].s.exercise_id))
     ELSE IF up # 0 THEN Remark("up", exercises[up].s.name, 0)
     ELSE IF pain # 0 THEN Remark("pain", <<>>, 0)
     ELSE NoRemark

_generate_log_comment(logged_sets, history, now) ==
  IF logged_sets = <<>> THEN NoRemark
  ELSE
  LET ex_hist(id) == SelectSeq(history, LAMBDA ws : ws.exercise_id = id)
      firsts == {i \in DOMAIN logged_sets :
                   \A j \in 1..(i - 1) : logged_sets[j].exercise_id # logged_sets[i].exercise_id}
      exercises == SelectSeq([i \in DOMAIN logged_sets |-> [s |-> logged_sets[i], first |-> i \in firsts]],
                             LAMBDA x : x.first)
      max_current(id) ==
        SetMax({logged_sets[i].weight : i \in {j \in DOMAIN logged_sets :
                  logged_sets[j].exercise_id = id /\ ~Falsy(logged_sets[j].weight)}})
      max_historical(id) ==
        SetMax({ex_hist(id)[i].weight : i \in {j \in DOMAIN ex_hist(id) : ex_hist(id)[j].weight # None}})
      most_recent_date(id) == SetMax({ex_hist(id)[i].set_date : i \in DOMAIN ex_hist(id)})
      IsPR(x) == /\ ~(x.s.is_cardio \/ Falsy(x.s.weight))
                 /\ max_historical(x.s.exercise_id) > 0
                 /\ max_current(x.s.exercise_id) > max_historical(x.s.exercise_id)
      IsFirst(x) == ex_hist(x.s.exercise_id) = <<>>
      IsGap(x) == /\ ex_hist(x.s.exercise_id) # <<>>
                  /\ now - most_recent_date(x.s.exercise_id) > GapDays
      IsUp(x) == /\ ~(x.s.is_cardio \/ Falsy(x.s.weight))
                 /\ ex_hist(x.s.exercise_id) # <<>>
                 /\ ~Falsy(ex_hist(x.s.exercise_id)[1].weight)
                 /\ x.s.weight > ex_hist(x.s.exercise_id)[1].weight
      IsPain(s) == s.notes # NoneStr /\ s.notes # "" /\ HasPainWord(s.notes)
      pr == FirstWhere(exercises, IsPR)
      first == FirstWhere(exercises, IsFirst)
      gap == FirstWhere(exercises, IsGap)
      up == FirstWhere(exercises, IsUp)
      pain == FirstWhere(logged_sets, IsPain)
  IN IF pr # 0 THEN Remark("pr", exercises[pr].s.name, 0)
     ELSE IF first # 0 THEN Remark("first", exercises[first].s.name, 0)
     ELSE IF gap # 0
       THEN Remark("gap", <<>>, now - most_recent_date(exercises[gap].s.exercise_id))
     ELSE IF up # 0 THEN Remark("up", exercises[up].s.name, 0)
     ELSE IF pain # 0 THEN Remark("pain", <<>>, 0)
     ELSE NoRemark

\* --------------------------------------------------- sessions and writes
\* A session holds its view of the two tables, the number of writes it has
\* flushed and whether an exception has left the block.  fail is the number
\* of the write at which the database raises (0: no write raises).
OpenSession(ex, ws) == [ex |-> ex, ws |-> ws, writes |-> 0, raised |-> FALSE]

\* The table is kept in the order of its (user_id, id) index: a new row
\* follows the rows of its user.  No query of the repository relates rows of
\* different users, all of them select on user_id.
InsertRow(ws, row) ==
  LET k == Cardinality({i \in DOMAIN ws : ws[i].user_id <= row.user_id})
  IN SubSeq(ws, 1, k) \o <<row>> \o SubSeq(ws, k + 1, Len(ws))

\* BaseRepository.create for WorkoutSet: add, flush, refresh
create_set(sess, row, fail) ==
  IF sess.raised THEN sess
  ELSE IF sess.writes + 1 = fail THEN [sess EXCEPT !.raised = TRUE]
  ELSE [sess EXCEPT !.ws = InsertRow(@, row), !.writes = @ + 1]

\* BaseRepository.create for Exercise; name is unique in the table
create_exercise(sess, name, fail) ==
  IF sess.raised THEN sess
  ELSE IF sess.writes + 1 = fail \/ get_by_name(sess.ex, name) # <<>>
    THEN [sess EXCEPT !.raised = TRUE]
  ELSE [sess EXCEPT !.ex = Append(@, [id |-> Len(@) + 1, name |-> name, muscle_group |-> "general"]),
                    !.writes = @ + 1]

\* the except branch without the rollback: what was flushed stays
get_session_no_rollback(ex, ws, sess) == [ex |-> sess.ex, ws |-> sess.ws]

\* DatabaseManager.get_session on leaving the block: commit, or rollback and re-raise
get_session(ex, ws, sess) ==
  IF sess.raised THEN [ex |-> ex, ws |-> ws] ELSE [ex |-> sess.ex, ws |-> sess.ws]

\* ------------------------------------------------------------- responses
\* error is the text of an exception interpolated into the response
Response(kind, batch_id, lines, names, count, date, comment) ==
  [kind |-> kind, batch_id |-> batch_id, lines |-> lines, names |-> names,
   count |-> count, date |-> date, comment |-> comment, error |-> NoneStr]

\* the exception leaves process(); the transport answers with its fixed failure text
Failure == Response("error", 0, <<>>, <<>>, 0, None, NoRemark)

\* --------------------------------------------------- _handle_log_workout
\* Exercise Matcher, steps 1-3 of the per-set loop: the session after the
\* lookup (and the ad-hoc create) and the resolved exercise
\* any shared word is enough for a match
match_or_create_any_overlap(sess, raw_name, exact, scored, created) ==
  IF exact # <<>>
    THEN [sess |-> sess, exercise |-> exact[1], matched_differently |-> FALSE]
  ELSE IF scored # <<>> /\ scored[1].score.num > 0
    THEN [sess |-> sess, exercise |-> scored[1].exercise,
          matched_differently |-> LowerName(scored[1].exercise.name) # LowerName(raw_name)]
  ELSE [sess |-> created,
        exercise |-> IF created.raised THEN [id |-> 0, name |-> raw_name, muscle_group |-> "general"]
                     ELSE created.ex[Len(created.ex)],
        matched_differently |-> FALSE]

match_or_create(sess, raw_name, exact, scored, created) ==
  IF exact # <<>>
    THEN [sess |-> sess, exercise |-> exact[1], matched_differently |-> FALSE]
  ELSE IF scored # <<>> /\ scored[1].score.num * ThresholdDen >= ThresholdNum * scored[1].score.den
    THEN [sess |-> sess, exercise |-> scored[1].exercise,
          matched_differently |-> LowerName(scored[1].exercise.name) # LowerName(raw_name)]
  ELSE [sess |-> created,
        exercise |-> IF created.raised THEN [id |-> 0, name |-> raw_name, muscle_group |-> "general"]
                     ELSE created.ex[Len(created.ex)],
        matched_differently |-> FALSE]

\* no lookup and no unique index: every mention inserts an exercise
resolve_exercise_always_new(sess, raw_name, fail) ==
  [sess |-> [sess EXCEPT !.ex = Append(@, [id |-> Len(@) + 1, name |-> raw_name,
                                           muscle_group |-> "general"])],
   exercise |-> [id |-> Len(sess.ex) + 1, name |-> raw_name, muscle_group |-> "general"],
   matched_differently |-> FALSE]

resolve_exercise(sess, raw_name, fail) ==
  match_or_create(sess, raw_name, get_by_name(sess.ex, raw_name),
                  search_scored(sess.ex, raw_name), create_exercise(sess, raw_name, fail))

log_row(user_id, batch_id, now, exercise, ex_set) ==
  [user_id |-> user_id, batch_id |-> batch_id, set_date |-> now,
   exercise_id |-> exercise.id, set_number |-> ex_set.set_number, reps |-> ex_set.reps,
   weight |-> ex_set.weight,
   weight_unit |-> IF ex_set.unit # "bodyweight" THEN ex_set.unit ELSE "lbs",
   duration_minutes |-> ex_set.duration_minutes, distance |-> ex_set.distance,
   raw_exercise_name |-> ex_set.exercise_name, notes |-> ex_set.notes]

\* the end of one iteration: the confirmation line and the logged_set_data
\* entry of the set written
log_append(st, ex_set, is_assumed, res, written) ==
  IF written.raised THEN [st EXCEPT !.sess = written]
  ELSE [sess |-> written,
        logged |-> Append(st.logged,
                          [name |-> res.exercise.name,
                           from |-> IF res.matched_differently THEN ex_set.exercise_name ELSE <<>>,
                           set_number |-> ex_set.set_number, reps |-> ex_set.reps,
                           assumed |-> is_assumed, weight |-> ex_set.weight,
                           notes |-> ex_set.notes]),
        logged_set_data |-> Append(st.logged_set_data,
                                   [exercise_id |-> res.exercise.id, name |-> res.exercise.name,
                                    weight |-> ex_set.weight, reps |-> ex_set.reps,
                                    notes |-> ex_set.notes,
                                    is_cardio |-> ~Falsy(ex_set.duration_minutes)])]

\* the create call of one iteration, for the exercise resolved
log_write(st, ex_set, is_assumed, user_id, batch_id, now, fail, res) ==
  log_append(st, ex_set, is_assumed, res,
             create_set(res.sess, log_row(user_id, batch_id, now, res.exercise, ex_set), fail))

\* one iteration of the per-set loop
log_set(st, ex_set, is_assumed, user_id, batch_id, now, fail) ==
  log_write(st, ex_set, is_assumed, user_id, batch_id, now, fail,
            resolve_exercise(st.sess, ex_set.exercise_name, fail))

\* the per-set loop, from set_idx on; st carries the session, the
\* confirmation lines and logged_set_data
RECURSIVE log_loop(_, _, _, _, _, _, _, _)
log_loop(st, exercises, set_idx, assumed, user_id, batch_id, now, fail) ==
  IF set_idx > Len(exercises) \/ st.sess.raised THEN st
  ELSE log_loop(log_set(st, exercises[set_idx], set_idx \in assumed, user_id, batch_id, now, fail),
                exercises, set_idx + 1, assumed, user_id, batch_id, now, fail)

\* the async-with block of _handle_log_workout: defaults, then the loop
log_session(ex, ws, user_id, expanded, batch_id, now, fail) ==
  log_loop([sess |-> OpenSession(ex, ws), logged |-> <<>>, logged_set_data |-> <<>>],
           ApplyDefaults(expanded), 1, defaulted_reps(expanded), user_id, batch_id, now, fail)

\* the history query inside the block, the block's exit, the commentary
\* and the response
log_end(ex, ws, user_id, batch_id, date, clock, st) ==
  LET now == IF date # None THEN date ELSE clock
      exercise_ids == {st.logged_set_data[i].exercise_id : i \in DOMAIN st.logged_set_data}
      history == get_recent_for_exercises(st.sess.ws, exercise_ids, user_id, batch_id)
      db == get_session(ex, ws, st.sess)
      comment == _generate_log_comment(st.logged_set_data, history, now)
  IN [ex |-> db.ex, ws |-> db.ws, raised |-> st.sess.raised, writes |-> st.sess.writes,
      batch_id |-> IF st.sess.raised THEN 0 ELSE batch_id,
      response |-> IF st.sess.raised THEN Failure
                   ELSE Response("logged", batch_id, st.logged, <<>>, Len(st.logged),
                                 IF date # None /\ date # clock THEN date ELSE None, comment)]

\* MessageHandler._handle_log_workout: the tables after the request, the
\* response, and the batch id it committed (0: none)
\* the handler without its early return
_handle_log_workout_unguarded(ex, ws, user_id, extracted, date, clock, fail) ==
  log_end(ex, ws, user_id, get_next_batch_id(ws, user_id), date, clock,
          log_session(ex, ws, user_id, _expand_sets(extracted),
                      get_next_batch_id(ws, user_id), IF date # None THEN date ELSE clock, fail))

_handle_log_workout(ex, ws, user_id, extracted, date, clock, fail) ==
  IF extracted = <<>>
    THEN [ex |-> ex, ws |-> ws, batch_id |-> 0, raised |-> FALSE, writes |-> 0,
          response |-> Response("no_extract", 0, <<>>, <<>>, 0, None, NoRemark)]
  ELSE log_end(ex, ws, user_id, get_next_batch_id(ws, user_id), date, clock,
               log_session(ex, ws, user_id, _expand_sets(extracted),
                           get_next_batch_id(ws, user_id), IF date # None THEN date ELSE clock, fail))

\* ------------------------------------------------ _handle_delete_workout
\* A delete message is what the handler reads of it: whether it contains
\* "undo" or "last", and its first run of digits as an integer (None: no digit)
DeleteMessages(max_id) == [trigger : BOOLEAN, number : {None} \cup 0..max_id]

\* exercise names of the rows, first occurrences in row order
RECURSIVE DistinctNames(_, _)
DistinctNames(rows, ex) ==
  IF rows = <<>> THEN <<>>
  ELSE LET rest == DistinctNames(SubSeq(rows, 1, Len(rows) - 1), ex)
           name == ex[rows[Len(rows)].exercise_id].name
       IN IF name \in Range(rest) THEN rest ELSE Append(rest, name)

not_found_response(batch_id) == Response("not_found", batch_id, <<>>, <<>>, 0, None, NoRemark)

deleted_response(batch_id, deleted, ex) ==
  Response("deleted", batch_id, <<>>, DistinctNames(deleted, ex), Len(deleted),
           deleted[1].set_date, NoRemark)

\* MessageHandler._handle_delete_workout
_handle_delete_workout(ex, ws, user_id, message) ==
  LET latest == get_latest_batch_for_user(ws, user_id)
      use_latest == message.trigger \/ message.number = None
      batch_id == IF use_latest THEN latest[1].batch_id ELSE message.number
  IN IF use_latest /\ latest = <<>>
       THEN [ws |-> ws, batch_id |-> 0,
             response |-> Response("nothing_to_delete", 0, <<>>, <<>>, 0, None, NoRemark)]
     ELSE IF ~use_latest /\ message.number = 0
       THEN [ws |-> ws, batch_id |-> 0,
             response |-> Response("which_workout", 0, <<>>, <<>>, 0, None, NoRemark)]
     ELSE LET res == delete_batch(ws, batch_id, user_id)
          IN IF res.sets = <<>>
               THEN [ws |-> res.ws, batch_id |-> 0, response |-> not_found_response(batch_id)]
               ELSE [ws |-> res.ws, batch_id |-> batch_id,
                     response |-> deleted_response(batch_id, res.sets, ex)]

\* --------------------------------------------------- _handle_repeat_last
\* What _parse_repeat_modifiers returns: a weight comes with a unit, times
\* is any integer written with digits, the note is the remaining text or None
Modifiers ==
  { m \in [weight : {None, 120}, weight_unit : {NoneStr, "lbs"},
           times : 0..MaxTimes, note : {NoneStr, "elbow"}] :
      (m.weight = None) <=> (m.weight_unit = NoneStr) }

\* "again", "again twice", "again x0": a repetition count and nothing else
PlainModifiers == {m \in Modifiers : m.weight = None /\ m.note = NoneStr}

\* the copy keeps the old notes when the message carries none
repeat_row_inherits_notes(old_set, mods, user_id, new_batch_id, now) ==
  [user_id |-> user_id, batch_id |-> new_batch_id, set_date |-> now,
   exercise_id |-> old_set.exercise_id, set_number |-> old_set.set_number,
   reps |-> old_set.reps,
   weight |-> IF mods.weight # None THEN mods.weight ELSE old_set.weight,
   weight_unit |-> IF mods.weight_unit # NoneStr THEN mods.weight_unit ELSE old_set.weight_unit,
   duration_minutes |-> old_set.duration_minutes, distance |-> old_set.distance,
   raw_exercise_name |-> old_set.raw_exercise_name,
   notes |-> IF mods.note # NoneStr THEN mods.note ELSE old_set.notes]

\* the obj_in dict of the create call in _handle_repeat_last
repeat_row(old_set, mods, user_id, new_batch_id, now) ==
  [user_id |-> user_id, batch_id |-> new_batch_id, set_date |-> now,
   exercise_id |-> old_set.exercise_id, set_number |-> old_set.set_number,
   reps |-> old_set.reps,
   weight |-> IF mods.weight # None THEN mods.weight ELSE old_set.weight,
   weight_unit |-> IF mods.weight_unit # NoneStr THEN mods.weight_unit ELSE old_set.weight_unit,
   duration_minutes |-> old_set.duration_minutes, distance |-> old_set.distance,
   raw_exercise_name |-> old_set.raw_exercise_name, notes |-> mods.note]

\* the inner loop over sorted_sets, from index i on
RECURSIVE copy_sets(_, _, _, _, _, _, _, _)
copy_sets(st, sorted_sets, i, mods, user_id, new_batch_id, now, fail) ==
  IF i > Len(sorted_sets) \/ st.sess.raised THEN st
  ELSE LET written == create_set(st.sess, repeat_row(sorted_sets[i], mods, user_id, new_batch_id, now), fail)
           line == [exercise_id |-> sorted_sets[i].exercise_id,
                    set_number |-> sorted_sets[i].set_number, reps |-> sorted_sets[i].reps,
                    weight |-> IF mods.weight # None THEN mods.weight ELSE sorted_sets[i].weight,
                    notes |-> mods.note]
       IN IF written.raised THEN [st EXCEPT !.sess = written]
          ELSE copy_sets([st EXCEPT !.sess = written, !.logged = Append(@, line)],
                         sorted_sets, i + 1, mods, user_id, new_batch_id, now, fail)

\* the outer loop: for _rep in range(mods["times"])
RECURSIVE repeat_loop(_, _, _, _, _, _, _)
repeat_loop(st, sorted_sets, rep, mods, user_id, now, fail) ==
  IF rep >= mods.times \/ st.sess.raised THEN st
  ELSE LET new_batch_id == get_next_batch_id(st.sess.ws, user_id)
           copied == copy_sets([st EXCEPT !.new_batch_ids = Append(@, new_batch_id)],
                               sorted_sets, 1, mods, user_id, new_batch_id, now, fail)
       IN repeat_loop(copied, sorted_sets, rep + 1, mods, user_id, now, fail)

\* the async-with block of _handle_repeat_last
repeat_session(ex, ws, user_id, mods, now, fail) ==
  LET last_sets == get_latest_batch_for_user(ws, user_id)
      sorted_sets == SortBy(last_sets, [i \in DOMAIN last_sets |->
                                          <<last_sets[i].exercise_id, last_sets[i].set_number>>])
  IN repeat_loop([sess |-> OpenSession(ex, ws), logged |-> <<>>, new_batch_ids |-> <<>>,
                  old_batch_id |-> IF last_sets = <<>> THEN 0 ELSE last_sets[1].batch_id],
                 sorted_sets, 0, mods, user_id, now, fail)

\* the repeat ending as the log does: history of the copied exercises
\* without the last new batch, and the remark appended
repeat_response_with_comment(st, mods, user_id, now) ==
  IF st.sess.raised \/ st.new_batch_ids = <<>> THEN Failure
  ELSE LET new_batch_id == st.new_batch_ids[Len(st.new_batch_ids)]
           copied == BatchRows(st.sess.ws, user_id, new_batch_id)
           logged_set_data ==
             [i \in DOMAIN copied |->
                [exercise_id |-> copied[i].exercise_id, name |-> st.sess.ex[copied[i].exercise_id].name,
                 weight |-> copied[i].weight, reps |-> copied[i].reps, notes |-> copied[i].notes,
                 is_cardio |-> ~Falsy(copied[i].duration_minutes)]]
           history == get_recent_for_exercises(st.sess.ws, {copied[i].exercise_id : i \in DOMAIN copied},
                                               user_id, new_batch_id)
       IN Response("repeated", new_batch_id, st.logged, <<>>, Len(st.logged), None,
                   _generate_log_comment(logged_set_data, history, now))

\* the header and the joined lines built after the block; new_batch_id is
\* unbound when the loop body never ran, and reading it raises
repeat_response(st, mods, user_id, now) ==
  IF st.sess.raised \/ st.new_batch_ids = <<>> THEN Failure
  ELSE Response("repeated", st.new_batch_ids[Len(st.new_batch_ids)], st.logged, <<>>,
                Len(st.logged), None, NoRemark)

\* the block's exit and the response
repeat_end(ex, ws, user_id, mods, now, st) ==
  [ws |-> get_session(ex, ws, st.sess).ws, raised |-> st.sess.raised, writes |-> st.sess.writes,
   new_batch_ids |-> IF st.sess.raised THEN <<>> ELSE st.new_batch_ids,
   old_batch_id |-> st.old_batch_id,
   response |-> repeat_response(st, mods, user_id, now)]

\* MessageHandler._handle_repeat_last
_handle_repeat_last(ex, ws, user_id, mods, now, fail) ==
  IF get_latest_batch_for_user(ws, user_id) = <<>>
    THEN [ws |-> ws, new_batch_ids |-> <<>>, old_batch_id |-> 0, raised |-> FALSE, writes |-> 0,
          response |-> Response("nothing_to_repeat", 0, <<>>, <<>>, 0, None, NoRemark)]
  ELSE repeat_end(ex, ws, user_id, mods, now, repeat_session(ex, ws, user_id, mods, now, fail))

\* ------------------------------------------------- _handle_list_workouts
_handle_list_workouts(ex, ws, user_id) ==
  LET all_sets == get_latest_batches(ws, user_id, ListLimit)
      ids == {all_sets[i].batch_id : i \in DOMAIN all_sets}
  IN IF all_sets = <<>>
       THEN Response("no_workouts", 0, <<>>, <<>>, 0, None, NoRemark)
       ELSE Response("list", 0, <<>>, <<>>, Cardinality(ids), None, NoRemark)

\* ------------------------------------------------------------------ state
VARIABLES
  exercises,     \* the exercises table
  workout_sets,  \* the workout_sets table
  today,         \* the calendar day _now_nyc() returns
  response,      \* what the last request answered
  op,            \* the last request: handler, user, batch ids it committed
  pre_log,       \* workout_sets as the last request found it, kept while that
                 \* request is a committed log
  high,          \* per user, the highest batch id a committed request allocated
  message_log,   \* the message_log table
  call,          \* the last call of a static helper: its arguments and result
  alone,         \* the tables and the answer user 1 would have had no other user
                 \* ever sent a message
  in_flight      \* the requests whose session is open: what each has read and
                 \* flushed but not committed

vars ==
  <<exercises, workout_sets, today, response, op, pre_log, high, message_log, call, alone,
    in_flight>>

NoCall == [fn |-> "none"]

NoOther ==
  [ex |-> SeedExercises, ws |-> <<>>, response |-> Response("none", 0, <<>>, <<>>, 0, None, NoRemark)]

\* kind and user_id: the handler and the sender; batch_ids: the batch ids the
\* request allocated and committed; target: the batch a delete or repeat
\* addressed; mods: the repeat modifiers; raised, writes: whether a database
\* write raised, and the writes flushed before it; after_log: the request
\* before this one was a committed log of the same user
Op(kind, user_id, batch_ids, target, mods, raised, writes) ==
  [kind |-> kind, user_id |-> user_id, batch_ids |-> batch_ids, target |-> target,
   mods |-> mods, raised |-> raised, writes |-> writes,
   after_log |-> op.kind = "log" /\ op.batch_ids # <<>> /\ op.user_id = user_id]

NoMods == [weight |-> None, weight_unit |-> NoneStr, times |-> 1, note |-> NoneStr]

Max(a, b) == IF a > b THEN a ELSE b

Init ==
  /\ exercises = SeedExercises
  /\ workout_sets = <<>>
  /\ today = 0
  /\ response = Response("none", 0, <<>>, <<>>, 0, None, NoRemark)
  /\ op = [kind |-> "init", user_id |-> 0, batch_ids |-> <<>>, target |-> 0, mods |-> NoMods,
           raised |-> FALSE, writes |-> 0, after_log |-> FALSE]
  /\ pre_log = <<>>
  /\ high = [u \in Users |-> 0]
  /\ message_log = <<>>
  /\ alone = NoOther
  /\ in_flight = <<>>
  /\ call = NoCall

\* process() routed to _handle_log_workout, for the senders, extractor
\* outputs, extracted dates and failing writes given
Log(senders, extractions, dates, fails, max_rows, max_batch) ==
  \E user_id \in senders, extracted \in extractions :
    /\ Len(UserRows(workout_sets, user_id)) + Len(_expand_sets(extracted)) <= max_rows
    /\ get_next_batch_id(workout_sets, user_id) <= max_batch
    /\ \E date \in dates, fail \in fails :
        \E r \in {_handle_log_workout(exercises, workout_sets, user_id, extracted, date, today, fail)} :
          /\ exercises' = r.ex
          /\ workout_sets' = r.ws
          /\ response' = r.response
          /\ op' = Op("log", user_id, IF r.batch_id = 0 THEN <<>> ELSE <<r.batch_id>>, 0, NoMods,
                      r.raised, r.writes)
          /\ pre_log' = IF r.batch_id = 0 THEN <<>> ELSE workout_sets
          /\ high' = [high EXCEPT ![user_id] = Max(@, r.batch_id)]
    /\ UNCHANGED <<today, message_log, call, alone, in_flight>>

\* process() routed to _handle_delete_workout
Delete(senders, messages) ==
  \E user_id \in senders, message \in messages :
    /\ \E r \in {_handle_delete_workout(exercises, workout_sets, user_id, message)} :
          /\ workout_sets' = r.ws
          /\ response' = r.response
          /\ op' = Op(IF message.trigger \/ message.number = None THEN "undo" ELSE "delete",
                      user_id, <<>>, IF r.batch_id # 0 THEN r.batch_id ELSE r.response.batch_id,
                      NoMods, FALSE, 0)
    /\ pre_log' = <<>>
    /\ UNCHANGED <<exercises, today, high, message_log, call, alone, in_flight>>

\* process() routed to _handle_repeat_last
Repeat(senders, modifiers, fails, max_rows, max_batch) ==
  \E user_id \in senders, mods \in modifiers, fail \in fails :
    /\ Len(UserRows(workout_sets, user_id))
         + mods.times * Len(get_latest_batch_for_user(workout_sets, user_id)) <= max_rows
    /\ get_next_batch_id(workout_sets, user_id) + mods.times - 1 <= max_batch
    /\ \E r \in {_handle_repeat_last(exercises, workout_sets, user_id, mods, today, fail)} :
          /\ workout_sets' = r.ws
          /\ response' = r.response
          /\ op' = Op("repeat", user_id, r.new_batch_ids, r.old_batch_id, mods,
                      r.raised, r.writes)
          /\ high' = [high EXCEPT ![user_id] = Max(@, SetMax(Range(r.new_batch_ids)))]
    /\ pre_log' = <<>>
    /\ UNCHANGED <<exercises, today, message_log, call, alone, in_flight>>

\* two users, each logging, undoing, deleting by id, repeating and listing
LogWorkout == Log(Users, PlainExtractions, {None}, {0}, MaxUserRows, MaxUserBatch)

DeleteWorkout == Delete(Users, DeleteMessages(MaxUserBatch))

RepeatLast == Repeat(Users, PlainModifiers, {0}, MaxUserRows, MaxUserBatch)

\* process() routed to _handle_list_workouts
ListWorkouts ==
  \E user_id \in Users :
    /\ response' = _handle_list_workouts(exercises, workout_sets, user_id)
    /\ op' = Op("list", user_id, <<>>, 0, NoMods, FALSE, 0)
    /\ pre_log' = <<>>
    /\ UNCHANGED <<exercises, workout_sets, today, high, message_log, call, alone, in_flight>>

Next == LogWorkout \/ DeleteWorkout \/ RepeatLast \/ ListWorkouts

Spec == Init /\ [][Next]_vars

\* one user, every extractor output and modifier, writes that may raise
LogAny == Log({1}, Extractions, {None}, 0..MaxFail, MaxRows, MaxBatch)

Undo == Delete({1}, {[trigger |-> TRUE, number |-> None]})

RepeatAny == Repeat({1}, Modifiers, 0..MaxFail, MaxRows, MaxBatch)

NextContent == LogAny \/ Undo \/ RepeatAny

SpecContent == Init /\ [][NextContent]_vars

\* ------------------------------------------------------- classify_intent
\* UserIntent; confidence in hundredths
Intent(intent, confidence) == [intent |-> intent, confidence |-> confidence]

\* a message with the fallback's keywords that occur in its lower-cased text
\* and the classification the model gives when the call succeeds
ClassifyMessages ==
  { [text |-> "undo that", contains |-> {"undo"}, answer |-> Intent("delete_workout", 90)],
    [text |-> "I did bench again", contains |-> {"did", "again"}, answer |-> Intent("repeat_last", 80)],
    [text |-> "I did 3 sets", contains |-> {"did", "sets"}, answer |-> Intent("log_workout", 90)],
    [text |-> "show my progress", contains |-> {"show", "progress"}, answer |-> Intent("view_stats", 90)],
    [text |-> "how do I squat?", contains |-> {}, answer |-> Intent("coaching", 80)] }

\* how one upstream call ends
Transient == {"ConnectionError", "TimeoutError"}

Outcomes == {"ok", "ValidationError"} \cup Transient

\* the except branch: the keyword classifier
keyword_fallback(message) ==
  IF message.contains \cap {"undo", "delete", "remove"} # {} THEN Intent("delete_workout", 70)
  ELSE IF message.contains \cap {"again", "repeat", "same as last"} # {} THEN Intent("repeat_last", 70)
  ELSE IF message.contains \cap {"log", "did", "worked out", "i benched", "sets", "reps"} # {}
    THEN Intent("log_workout", 60)
  ELSE IF message.contains \cap {"stats", "progress", "history", "show"} # {} THEN Intent("view_stats", 90)
  ELSE Intent("coaching", 50)

\* the decorated body: one upstream call inside try/except Exception; every
\* exception of the call is answered by the fallback and none leaves the body
classify_body(message, outcome) ==
  [raised |-> "none", fallback |-> outcome # "ok",
   result |-> IF outcome = "ok" THEN message.answer ELSE keyword_fallback(message)]

\* tenacity: the body is called again while it raises ConnectionError or
\* TimeoutError and fewer than StopAfterAttempt calls were made; after the
\* last one RetryError is raised
attempt_end(r, attempt) ==
  [raised |-> IF r.raised \in Transient THEN "RetryError" ELSE r.raised,
   fallback |-> r.fallback, result |-> r.result, attempts |-> attempt]

RECURSIVE retrying(_, _, _)
retrying(message, upstream, attempt) ==
  IF classify_body(message, upstream[attempt]).raised \in Transient /\ attempt < StopAfterAttempt
    THEN retrying(message, upstream, attempt + 1)
    ELSE attempt_end(classify_body(message, upstream[attempt]), attempt)

classify_intent(message, upstream) == retrying(message, upstream, 1)

\* -------------------------------------------------- _compute_consistency
\* sorted(dates, reverse=True)
RECURSIVE sorted_reverse(_)
sorted_reverse(dates) ==
  IF dates = <<>> THEN <<>>
  ELSE LET k == CHOOSE i \in DOMAIN dates : \A j \in DOMAIN dates : dates[i] >= dates[j]
       IN <<dates[k]>> \o sorted_reverse(SubSeq(dates, 1, k - 1) \o SubSeq(dates, k + 1, Len(dates)))

\* the loop stops at the first date that is not the expected one
RECURSIVE streak_loop_stops_at_mismatch(_, _, _, _)
streak_loop_stops_at_mismatch(sorted_dates, i, expected, streak) ==
  IF i > Len(sorted_dates) THEN streak
  ELSE IF sorted_dates[i] = expected
    THEN streak_loop_stops_at_mismatch(sorted_dates, i + 1, expected - 1, streak + 1)
  ELSE streak

\* the streak loop: a date equal to the expected day counts, an earlier one
\* ends the loop, a later one is passed over
RECURSIVE streak_loop(_, _, _, _)
streak_loop(sorted_dates, i, expected, streak) ==
  IF i > Len(sorted_dates) THEN streak
  ELSE IF sorted_dates[i] = expected
    THEN streak_loop(sorted_dates, i + 1, expected - 1, streak + 1)
  ELSE IF sorted_dates[i] < expected THEN streak
  ELSE streak_loop(sorted_dates, i + 1, expected, streak)

\* avg_gap as the fraction sum(gaps) / len(gaps): the gaps of the sorted
\* dates add up to the span between the latest and the earliest
_compute_consistency(dates_90, dates_30, now) ==
  [count_30d |-> Len(dates_30),
   count_90d |-> Len(dates_90),
   avg_gap |-> IF Len(dates_90) >= 2
                 THEN [num |-> sorted_reverse(dates_90)[1] - sorted_reverse(dates_90)[Len(dates_90)],
                       den |-> Len(dates_90) - 1]
                 ELSE [num |-> None, den |-> 1],
   streak |-> streak_loop(sorted_reverse(dates_90), 1, now, 0),
   days_since_last |-> IF dates_90 # <<>> THEN now - sorted_reverse(dates_90)[1] ELSE None]

\* ------------------------------------------------ static helpers alone
\* entries of logged_set_data as the per-set loop builds them
LoggedSetData(exercise_id, name, weight, notes) ==
  [exercise_id |-> exercise_id, name |-> name, weight |-> weight, reps |-> 5,
   notes |-> notes, is_cardio |-> FALSE]

LoggedSets ==
  UNION {[1..n -> { LoggedSetData(1, BenchPress, 120, "sore"),
                    LoggedSetData(1, BenchPress, 90, NoneStr),
                    LoggedSetData(2, ChestPress, None, NoneStr) }] : n \in 0..MaxLogged}

\* earlier rows of the user: what the commentary reads of a WorkoutSet
HistoryRow(exercise_id, weight, set_date, set_number) ==
  [exercise_id |-> exercise_id, weight |-> weight, set_date |-> set_date,
   set_number |-> set_number]

HistoryRows ==
  << HistoryRow(1, 100, NowPure - 1, 1), HistoryRow(1, 150, NowPure - 1, 2),
     HistoryRow(1, 100, NowPure - GapDays - 2, 1), HistoryRow(2, None, NowPure - 1, 1) >>

\* the rows chosen, in the order get_recent_for_exercises returns them
newest_first(rows) ==
  SortBy(rows, [i \in DOMAIN rows |-> <<0 - rows[i].set_date, rows[i].set_number>>])

Histories ==
  {newest_first(SelectSeq(HistoryRows, LAMBDA r : r \in S)) : S \in SUBSET Range(HistoryRows)}

CommentArgs ==
  [fn : {"args"}, of : {"_generate_log_comment"}, logged_sets : LoggedSets,
   history : Histories, now : {NowPure}]

\* the rows chosen, in every order
ReorderedArgs ==
  [fn : {"args"}, of : {"reordered"}, logged_sets : LoggedSets,
   history : {h \in UNION {[1..n -> Range(HistoryRows)] : n \in 0..Len(HistoryRows)} :
                \A i, j \in DOMAIN h : h[i] = h[j] => i = j}]

\* extractor entries handed to _expand_sets and the reps defaulting
PureSets ==
  { ExerciseSet(BenchPress, 3, 8, 100, "lbs", None, None, NoneStr),
    ExerciseSet(BenchPress, 1, None, 100, "lbs", None, None, NoneStr),
    ExerciseSet(ChestPress, 2, 0, None, "bodyweight", None, None, NoneStr),
    ExerciseSet(chest_pull, 1, None, None, "lbs", 20, 3, NoneStr) }

ExpandArgs ==
  [fn : {"args"}, of : {"_expand_sets"},
   exercises : UNION {[1..n -> PureSets] : n \in 0..MaxPure}]

\* the exercises table one iteration of the per-set loop may find: not yet
\* seeded, seeded, seeded and holding an ad-hoc exercise
Catalogs ==
  { <<>>, SeedExercises,
    Append(SeedExercises, [id |-> 3, name |-> chest_pull, muscle_group |-> "general"]) }

LogSetArgs ==
  [fn : {"args"}, of : {"log_set"}, catalog : Catalogs,
   ex_set : {ExerciseSet(name, 1, 5, 100, "lbs", None, None, NoneStr) :
               name \in {BenchPress, bench, chest_pull}}]

\* upstream[k] is how the k-th call of the completion endpoint would end
ClassifyArgs ==
  [fn : {"args"}, of : {"classify_intent"}, message : ClassifyMessages,
   upstream : [1..StopAfterAttempt -> Outcomes]]

\* workout dates around today, in any order, with repeats and days to come
ConsistencyArgs ==
  [fn : {"args"}, of : {"_compute_consistency"},
   dates_90 : UNION {[1..n -> (NowPure - 3)..(NowPure + 1)] : n \in 0..MaxDates}]

PureArgs ==
  CommentArgs \cup ExpandArgs \cup LogSetArgs \cup ClassifyArgs \cup ConsistencyArgs
    \cup ReorderedArgs

InitPure ==
  /\ exercises = SeedExercises
  /\ workout_sets = <<>>
  /\ today = NowPure
  /\ response = Response("none", 0, <<>>, <<>>, 0, None, NoRemark)
  /\ op = [kind |-> "init", user_id |-> 0, batch_ids |-> <<>>, target |-> 0, mods |-> NoMods,
           raised |-> FALSE, writes |-> 0, after_log |-> FALSE]
  /\ pre_log = <<>>
  /\ high = [u \in Users |-> 0]
  /\ message_log = <<>>
  /\ alone = NoOther
  /\ in_flight = <<>>
  /\ call \in PureArgs

\* a call of _generate_log_comment with the arguments drawn
GenerateLogComment ==
  /\ call.fn = "args" /\ call.of = "_generate_log_comment"
  /\ call' = [fn |-> "_generate_log_comment", logged_sets |-> call.logged_sets,
              history |-> call.history, now |-> call.now,
              result |-> _generate_log_comment(call.logged_sets, call.history, call.now)]
  /\ UNCHANGED <<exercises, workout_sets, today, response, op, pre_log, high, message_log, alone, in_flight>>

\* workout_data.exercises = self._expand_sets(workout_data.exercises)
ExpandSets ==
  /\ call.fn = "args" /\ call.of = "_expand_sets"
  /\ call' = [fn |-> "_expand_sets", exercises |-> call.exercises,
              result |-> _expand_sets(call.exercises)]
  /\ UNCHANGED <<exercises, workout_sets, today, response, op, pre_log, high, message_log, alone, in_flight>>

\* the reps defaulting loop over the expanded list
ApplyRepsDefaults ==
  /\ call.fn = "_expand_sets"
  /\ call' = [fn |-> "defaulted_reps", exercises |-> call.result,
              result |-> ApplyDefaults(call.result),
              defaulted_reps |-> defaulted_reps(call.result)]
  /\ UNCHANGED <<exercises, workout_sets, today, response, op, pre_log, high, message_log, alone, in_flight>>

\* one iteration of the per-set loop in a fresh session of user 1
LogSet ==
  /\ call.fn = "args" /\ call.of = "log_set"
  /\ call' = [fn |-> "log_set", catalog |-> call.catalog, ex_set |-> call.ex_set,
              result |-> log_set([sess |-> OpenSession(call.catalog, <<>>), logged |-> <<>>,
                                  logged_set_data |-> <<>>],
                                 call.ex_set, FALSE, 1, 1, today, 0)]
  /\ UNCHANGED <<exercises, workout_sets, today, response, op, pre_log, high, message_log, alone, in_flight>>

ClassifyIntent ==
  /\ call.fn = "args" /\ call.of = "classify_intent"
  /\ call' = [fn |-> "classify_intent", message |-> call.message, upstream |-> call.upstream,
              result |-> classify_intent(call.message, call.upstream)]
  /\ UNCHANGED <<exercises, workout_sets, today, response, op, pre_log, high, message_log, alone, in_flight>>

ComputeConsistency ==
  /\ call.fn = "args" /\ call.of = "_compute_consistency"
  /\ call' = [fn |-> "_compute_consistency", dates_90 |-> call.dates_90,
              result |-> _compute_consistency(call.dates_90, call.dates_90, today)]
  /\ UNCHANGED <<exercises, workout_sets, today, response, op, pre_log, high, message_log, alone,
                 in_flight>>

\* the commentary on a history as listed and on the same rows newest first
CommentOnReordered ==
  /\ call.fn = "args" /\ call.of = "reordered"
  /\ call' = [fn |-> "reordered", logged_sets |-> call.logged_sets, history |-> call.history,
              result |-> _generate_log_comment(call.logged_sets, call.history, today),
              sorted_result |-> _generate_log_comment(call.logged_sets,
                                                      newest_first(call.history), today)]
  /\ UNCHANGED <<exercises, workout_sets, today, response, op, pre_log, high, message_log, alone,
                 in_flight>>

NextPure ==
  \/ GenerateLogComment \/ ExpandSets \/ ApplyRepsDefaults \/ LogSet \/ ClassifyIntent
  \/ ComputeConsistency \/ CommentOnReordered

SpecPure == InitPure /\ [][NextPure]_vars

\* ------------------------------------------------------- long histories
\* The table of user 1 after an older session (one set of old_exercise at
\* 200 lbs on day 0, 0: no such session) and n later sessions of one set of
\* Bench Press at 100 lbs on day 1, one batch per session.
history_row(batch_id, set_date, exercise_id, weight) ==
  [user_id |-> 1, batch_id |-> batch_id, set_date |-> set_date, exercise_id |-> exercise_id,
   set_number |-> 1, reps |-> 5, weight |-> weight, weight_unit |-> "lbs",
   duration_minutes |-> None, distance |-> None,
   raw_exercise_name |-> SeedExercises[exercise_id].name, notes |-> NoneStr]

LongHistory(old_exercise, n) ==
  IF old_exercise = 0
    THEN [i \in 1..n |-> history_row(i, 1, 1, 100)]
    ELSE <<history_row(1, 0, old_exercise, 200)>> \o [i \in 1..n |-> history_row(i + 1, 1, 1, 100)]

HistoryExtractions ==
  { <<ExerciseSet(BenchPress, 1, 5, 120, "lbs", None, None, NoneStr)>>,
    <<ExerciseSet(BenchPress, 1, 5, 100, "lbs", None, None, NoneStr),
      ExerciseSet(ChestPress, 1, 8, 50, "lbs", None, None, NoneStr)>> }

InitHistory ==
  /\ exercises = SeedExercises
  /\ \E old_exercise \in 0..Len(SeedExercises), n \in 0..MaxHistory :
       /\ workout_sets = LongHistory(old_exercise, n)
       /\ high = [u \in Users |-> IF u = 1 THEN Len(LongHistory(old_exercise, n)) ELSE 0]
  /\ today = 2
  /\ response = Response("none", 0, <<>>, <<>>, 0, None, NoRemark)
  /\ op = [kind |-> "history", user_id |-> 0, batch_ids |-> <<>>, target |-> 0, mods |-> NoMods,
           raised |-> FALSE, writes |-> 0, after_log |-> FALSE]
  /\ pre_log = <<>>
  /\ message_log = <<>>
  /\ alone = NoOther
  /\ in_flight = <<>>
  /\ call = NoCall

\* the next message of user 1 after the history: a log on day 2
LogAfterHistory ==
  /\ op.kind = "history"
  /\ Log({1}, HistoryExtractions, {None}, {0}, MaxHistory + 3, MaxHistory + 2)

NextHistory == LogAfterHistory

SpecHistory == InitHistory /\ [][NextHistory]_vars

\* ------------------------------------------------ one user beside another
\* User 1 logs and undoes in the shared tables and, with the same messages, in
\* tables no other user has touched; user 2 logs in the shared tables only.
Alone(r, reply) == [ex |-> r.ex, ws |-> r.ws, response |-> reply]

OtherLogs ==
  Log({2}, { <<ExerciseSet(<<"pull">>, 1, 5, 50, "lbs", None, None, NoneStr)>>,
             <<ExerciseSet(BenchPress, 1, 5, 100, "lbs", None, None, NoneStr)>> },
      {None}, {0}, MaxUserRows, MaxUserBatch)

LogBeside ==
  \E extracted \in { <<ExerciseSet(chest_pull, 1, 5, 50, "lbs", None, None, NoneStr)>>,
                     <<ExerciseSet(BenchPress, 1, 5, 100, "lbs", None, None, NoneStr)>> } :
    /\ Len(UserRows(workout_sets, 1)) + Len(_expand_sets(extracted)) <= MaxUserRows
    /\ get_next_batch_id(workout_sets, 1) <= MaxUserBatch
    /\ \E r \in {_handle_log_workout(exercises, workout_sets, 1, extracted, None, today, 0)},
          a \in {_handle_log_workout(alone.ex, alone.ws, 1, extracted, None, today, 0)} :
          /\ exercises' = r.ex
          /\ workout_sets' = r.ws
          /\ response' = r.response
          /\ op' = Op("log", 1, IF r.batch_id = 0 THEN <<>> ELSE <<r.batch_id>>, 0, NoMods,
                      r.raised, r.writes)
          /\ pre_log' = IF r.batch_id = 0 THEN <<>> ELSE workout_sets
          /\ high' = [high EXCEPT ![1] = Max(@, r.batch_id)]
          /\ alone' = Alone(a, a.response)
    /\ UNCHANGED <<today, message_log, call, in_flight>>

UndoBeside ==
  \E r \in {_handle_delete_workout(exercises, workout_sets, 1, [trigger |-> TRUE, number |-> None])},
     a \in {_handle_delete_workout(alone.ex, alone.ws, 1, [trigger |-> TRUE, number |-> None])} :
    /\ workout_sets' = r.ws
    /\ response' = r.response
    /\ op' = Op("undo", 1, <<>>, IF r.batch_id # 0 THEN r.batch_id ELSE r.response.batch_id,
                NoMods, FALSE, 0)
    /\ pre_log' = <<>>
    /\ alone' = [ex |-> alone.ex, ws |-> a.ws, response |-> a.response]
    /\ UNCHANGED <<exercises, today, high, message_log, call, in_flight>>

NextUsers == OtherLogs \/ LogBeside \/ UndoBeside

SpecUsers == Init /\ [][NextUsers]_vars

\* ------------------------------------- overlapping requests of one user
\* Requests of user 1 whose sessions are open at the same time.  A session
\* reads committed rows and its own; what it flushed is seen by others once
\* it has committed.
\* one set each, of seeded exercises
RaceExtractions ==
  { <<ExerciseSet(BenchPress, 1, 5, 100, "lbs", None, None, NoneStr)>>,
    <<ExerciseSet(ChestPress, 1, 8, 50, "lbs", None, None, NoneStr)>> }

InitRace ==
  /\ exercises = SeedExercises
  /\ workout_sets = <<>>
  /\ today = 0
  /\ response = Response("none", 0, <<>>, <<>>, 0, None, NoRemark)
  /\ op = [kind |-> "init", user_id |-> 0, batch_ids |-> <<>>, target |-> 0, mods |-> NoMods,
           raised |-> FALSE, writes |-> 0, after_log |-> FALSE]
  /\ pre_log = <<>>
  /\ high = [u \in Users |-> 0]
  /\ message_log = <<>>
  /\ alone = NoOther
  /\ call = NoCall
  /\ in_flight = [r \in 1..MaxRequests |-> [pc |-> "idle"]]

Open(in) == {r \in DOMAIN in : in[r].pc = "open"}

\* the session is opened and get_next_batch_id has answered
Begin ==
  \E r \in 1..MaxRequests, extracted \in RaceExtractions :
    /\ in_flight[r].pc = "idle"
    /\ Len(workout_sets) + Cardinality(Open(in_flight)) + 1 <= MaxRaceRows
    /\ get_next_batch_id(workout_sets, 1) <= MaxUserBatch
    /\ in_flight' = [in_flight EXCEPT ![r] =
                       [pc |-> "open", extracted |-> extracted, seen |-> workout_sets,
                        batch_id |-> get_next_batch_id(workout_sets, 1)]]
    /\ UNCHANGED <<exercises, workout_sets, today, response, op, pre_log, high, message_log,
                   call, alone>>

\* a unique index on (user_id, batch_id groups of other sessions) refuses the rows
commit_rows_one_event_per_batch(ws, rows) ==
  IF \E i \in DOMAIN rows, j \in DOMAIN ws :
       rows[i].user_id = ws[j].user_id /\ rows[i].batch_id = ws[j].batch_id
    THEN [ws |-> ws, raised |-> TRUE]
    ELSE [ws |-> ws \o rows, raised |-> FALSE]

\* session.commit(): the flushed rows join the table; workout_sets has no
\* unique index
commit_rows(ws, rows) == [ws |-> ws \o rows, raised |-> FALSE]

\* the rest of the with block and its commit
Commit ==
  \E r \in 1..MaxRequests :
    /\ in_flight[r].pc = "open"
    /\ \E res \in {log_end(exercises, in_flight[r].seen, 1, in_flight[r].batch_id, None, today,
                          log_session(exercises, in_flight[r].seen, 1,
                                      _expand_sets(in_flight[r].extracted),
                                      in_flight[r].batch_id, today, 0))} :
         \E c \in {commit_rows(workout_sets,
                               SubSeq(res.ws, Len(in_flight[r].seen) + 1, Len(res.ws)))} :
           /\ workout_sets' = c.ws
           /\ response' = IF c.raised THEN Failure ELSE res.response
           /\ op' = Op("log", 1, IF c.raised THEN <<>> ELSE <<in_flight[r].batch_id>>, 0, NoMods,
                       c.raised, res.writes)
           /\ high' = [high EXCEPT ![1] = Max(@, in_flight[r].batch_id)]
    /\ pre_log' = workout_sets
    /\ in_flight' = [in_flight EXCEPT ![r] = [pc |-> "idle"]]
    /\ UNCHANGED <<exercises, today, message_log, call, alone>>

NextRace == Begin \/ Commit \/ Undo

SpecRace == InitRace /\ [][NextRace]_vars

\* ------------------------------------------------------ _handle_overview
\* strftime("%a %b %-d"): weekday, and month with day of month (years of 365
\* days); the year is not part of the key
date_key(d) == [weekday |-> d % 7, month_day |-> d % 365]

\* the keys of the OrderedDict, in the order of their first insertion
day_keys(rows) ==
  LET keyed == [i \in DOMAIN rows |->
                  [key |-> date_key(rows[i].set_date),
                   first |-> \A j \in 1..(i - 1) :
                               date_key(rows[j].set_date) # date_key(rows[i].set_date)]]
      firsts == SelectSeq(keyed, LAMBDA x : x.first)
  IN [i \in DOMAIN firsts |-> firsts[i].key]

\* while len(days) > 3: days.popitem(last=False)
trim_days(keys) == IF Len(keys) > ShownDays THEN SubSeq(keys, Len(keys) - ShownDays + 1, Len(keys)) ELSE keys

\* one entry per day shown: its heading, the dates of the sets under it and
\* their number
day_lines(rows, keys) ==
  [i \in DOMAIN keys |->
     [date_key |-> keys[i],
      dates |-> {rows[j].set_date : j \in {k \in DOMAIN rows : date_key(rows[k].set_date) = keys[i]}},
      sets |-> Cardinality({k \in DOMAIN rows : date_key(rows[k].set_date) = keys[i]})]]

_handle_overview(ws, user_id) ==
  LET all_sets == get_latest_batches(ws, user_id, OverviewLimit)
      \* for ws in reversed(all_sets)
      rows == [i \in DOMAIN all_sets |-> all_sets[Len(all_sets) + 1 - i]]
  IN IF all_sets = <<>>
       THEN Response("no_workouts", 0, <<>>, <<>>, 0, None, NoRemark)
       ELSE Response("overview", 0, day_lines(rows, trim_days(day_keys(rows))),
                     <<>>, 0, None, NoRemark)

\* user 1 logs one set a message, dated today or in the past, and asks for
\* the overview
InitOverview ==
  /\ exercises = SeedExercises
  /\ workout_sets = <<>>
  /\ today = 8 * 365
  /\ response = Response("none", 0, <<>>, <<>>, 0, None, NoRemark)
  /\ op = [kind |-> "init", user_id |-> 0, batch_ids |-> <<>>, target |-> 0, mods |-> NoMods,
           raised |-> FALSE, writes |-> 0, after_log |-> FALSE]
  /\ pre_log = <<>>
  /\ high = [u \in Users |-> 0]
  /\ message_log = <<>>
  /\ alone = NoOther
  /\ in_flight = <<>>
  /\ call = NoCall

LogDated ==
  Log({1}, {<<ExerciseSet(BenchPress, 1, 5, 100, "lbs", None, None, NoneStr)>>},
      {None, today - 1, today - 2, today - 3, today - 7 * 365}, {0}, MaxOverview, MaxOverview)

Overview ==
  /\ response' = _handle_overview(workout_sets, 1)
  /\ op' = Op("overview", 1, <<>>, 0, NoMods, FALSE, 0)
  /\ pre_log' = <<>>
  /\ UNCHANGED <<exercises, workout_sets, today, high, message_log, call, alone, in_flight>>

NextOverview == LogDated \/ Overview

SpecOverview == InitOverview /\ [][NextOverview]_vars

\* ------------------------------------------------- delete messages as text
\* A message is the sequence of its characters.
DeleteTexts ==
  [undo |-> <<"u", "n", "d", "o">>,
   UNDO_1 |-> <<"U", "N", "D", "O", " ", "1">>,
   delete_last |-> <<"d", "e", "l", "e", "t", "e", " ", "l", "a", "s", "t">>,
   blast_1 |-> <<"b", "l", "a", "s", "t", " ", "1">>,
   delete_hash_2 |-> <<"d", "e", "l", "e", "t", "e", " ", "#", "2">>,
   delete_1 |-> <<"d", "e", "l", "e", "t", "e", " ", "1">>,
   rm_2_1 |-> <<"r", "m", " ", "2", " ", "1">>,
   delete_0 |-> <<"d", "e", "l", "e", "t", "e", " ", "0">>,
   delete |-> <<"d", "e", "l", "e", "t", "e">>,
   del_hash_12 |-> <<"d", "e", "l", " ", "#", "1", "2">>]

\* str.lower() on the letters the messages use
lower(text) ==
  [i \in DOMAIN text |->
     CASE text[i] = "U" -> "u" [] text[i] = "N" -> "n" [] text[i] = "D" -> "d"
       [] text[i] = "O" -> "o" [] OTHER -> text[i]]

\* word in msg_lower
contains(text, word) ==
  \E i \in 1..(Len(text) - Len(word) + 1) : SubSeq(text, i, i + Len(word) - 1) = word

Digits == {"0", "1", "2", "3", "4", "5", "6", "7", "8", "9"}

\* int() of the digits text[i], text[i + 1], ... up to the first non-digit
RECURSIVE int_at(_, _, _)
int_at(text, i, value) ==
  IF i > Len(text) \/ text[i] \notin Digits THEN value
  ELSE int_at(text, i + 1,
              10 * value + (CASE text[i] = "0" -> 0 [] text[i] = "1" -> 1 [] text[i] = "2" -> 2
                              [] text[i] = "3" -> 3 [] text[i] = "4" -> 4 [] text[i] = "5" -> 5
                              [] text[i] = "6" -> 6 [] text[i] = "7" -> 7 [] text[i] = "8" -> 8
                              [] text[i] = "9" -> 9))

\* re.search(r"#?(\d+)", message): the leftmost digit run, or None
_parse_workout_id(text) ==
  IF \A i \in DOMAIN text : text[i] \notin Digits THEN None
  ELSE int_at(text, CHOOSE i \in DOMAIN text :
                      text[i] \in Digits /\ \A j \in 1..(i - 1) : text[j] \notin Digits, 0)

\* the number decides as soon as the message holds one
delete_message_number_first(text) ==
  [trigger |-> FALSE, number |-> _parse_workout_id(text)]

\* the tests of _handle_delete_workout on the message
delete_message(text) ==
  [trigger |-> contains(lower(text), <<"u", "n", "d", "o">>)
                 \/ contains(lower(text), <<"l", "a", "s", "t">>),
   number |-> _parse_workout_id(text)]

\* user 1 logs, and deletes with the messages above
LogForDelete == Log({1}, PlainExtractions, {None}, {0}, MaxUserRows, MaxUserBatch)

DeleteByText ==
  \E text \in Range(DeleteTexts) :
    /\ \E r \in {_handle_delete_workout(exercises, workout_sets, 1, delete_message(text))} :
          /\ workout_sets' = r.ws
          /\ response' = r.response
          /\ op' = Op("delete", 1, <<>>, IF r.batch_id # 0 THEN r.batch_id ELSE r.response.batch_id,
                      NoMods, FALSE, 0)
    /\ call' = [fn |-> "_handle_delete_workout", message |-> text]
    /\ pre_log' = <<>>
    /\ UNCHANGED <<exercises, today, high, message_log, alone, in_flight>>

NextDelete == LogForDelete \/ DeleteByText

SpecDelete == Init /\ [][NextDelete]_vars

\* -------------------------------------------------------------- process()
\* what classify_intent may hand to the routing chain
Classifications ==
  { Intent("log_workout", c) : c \in {40, LogConfidence, 60} }
    \cup { Intent("log_weight", 80), Intent("view_stats", 90), Intent("list_workouts", 80),
           Intent("delete_workout", 70), Intent("repeat_last", 70), Intent("coaching", 50) }

\* a message with what the extractor, _handle_delete_workout's tests and
\* _parse_repeat_modifiers make of it
\* upstream is how the completion endpoint answers the calls made for the
\* message after its classification (extractor, coaching)
Message(text, upstream, extracted, trigger, number, mods) ==
  [text |-> text, upstream |-> upstream, extracted |-> extracted, trigger |-> trigger,
   number |-> number, mods |-> mods]

\* LLMClient.extract_workout_data: the exercise list, or None (<<>>) when the
\* list is empty or the call raised
extract_workout_data(outcome, data) == IF outcome = "ok" THEN data ELSE <<>>

ProcessMessages ==
  { Message("bench press 5 reps at 100", outcome,
            extract_workout_data(outcome, <<ExerciseSet(BenchPress, 1, 5, 100, "lbs", None, None, NoneStr)>>),
            FALSE, 5,
            [weight |-> 100, weight_unit |-> "lbs", times |-> 1, note |-> "bench press 5 reps"]) :
      outcome \in {"ok", "TimeoutError"} }
    \cup { Message("undo", "ok", extract_workout_data("ok", <<>>), TRUE, None,
                   [weight |-> None, weight_unit |-> NoneStr, times |-> 1, note |-> "undo"]) }

\* the logger also takes a confidence of exactly one half
route_at_half(intent) ==
  IF intent.intent = "log_workout" /\ intent.confidence >= LogConfidence THEN "_handle_log_workout"
  ELSE IF intent.intent = "log_weight" THEN "_handle_log_weight"
  ELSE IF intent.intent = "view_stats" THEN "_handle_view_stats"
  ELSE IF intent.intent = "list_workouts" THEN "_handle_list_workouts"
  ELSE IF intent.intent = "delete_workout" THEN "_handle_delete_workout"
  ELSE IF intent.intent = "repeat_last" THEN "_handle_repeat_last"
  ELSE "_handle_coaching"

\* the if/elif chain: the handler a classification selects
route(intent) ==
  IF intent.intent = "log_workout" /\ intent.confidence > LogConfidence THEN "_handle_log_workout"
  ELSE IF intent.intent = "log_weight" THEN "_handle_log_weight"
  ELSE IF intent.intent = "view_stats" THEN "_handle_view_stats"
  ELSE IF intent.intent = "list_workouts" THEN "_handle_list_workouts"
  ELSE IF intent.intent = "delete_workout" THEN "_handle_delete_workout"
  ELSE IF intent.intent = "repeat_last" THEN "_handle_repeat_last"
  ELSE "_handle_coaching"

\* what a handler leaves behind: the two tables, whether an exception left
\* it, and its response
Handled(ex, ws, raised, reply) == [ex |-> ex, ws |-> ws, raised |-> raised, response |-> reply]

\* a handler that writes neither table; _handle_log_weight has one write, to
\* body_weights, which may raise
reads_only(ex, ws, kind, raised) ==
  Handled(ex, ws, raised, IF raised THEN Failure ELSE Response(kind, 0, <<>>, <<>>, 0, None, NoRemark))

\* LLMClient.generate_coaching_response: the model's text, or the apology
\* with str(e) in brackets
generate_coaching_response(outcome) ==
  IF outcome = "ok" THEN Response("coaching", 0, <<>>, <<>>, 0, None, NoRemark)
  ELSE [Response("coaching_failed", 0, <<>>, <<>>, 0, None, NoRemark) EXCEPT !.error = outcome]

\* build_coaching_context only reads
_handle_coaching(ex, ws, outcome) == Handled(ex, ws, FALSE, generate_coaching_response(outcome))

logged(r) == Handled(r.ex, r.ws, r.raised, r.response)

deleted(ex, r) == Handled(ex, r.ws, FALSE, r.response)

repeated(ex, r) == Handled(ex, r.ws, r.raised, r.response)

run_handler(handler, ex, ws, user_id, message, now, fail) ==
  CASE handler = "_handle_log_workout" ->
         logged(_handle_log_workout(ex, ws, user_id, message.extracted, None, now, fail))
    [] handler = "_handle_log_weight" -> reads_only(ex, ws, "weight", fail = 1)
    [] handler = "_handle_view_stats" -> reads_only(ex, ws, "stats", FALSE)
    [] handler = "_handle_list_workouts" ->
         Handled(ex, ws, FALSE, _handle_list_workouts(ex, ws, user_id))
    [] handler = "_handle_delete_workout" ->
         deleted(ex, _handle_delete_workout(ex, ws, user_id,
                                            [trigger |-> message.trigger, number |-> message.number]))
    [] handler = "_handle_repeat_last" ->
         repeated(ex, _handle_repeat_last(ex, ws, user_id, message.mods, now, fail))
    [] OTHER -> _handle_coaching(ex, ws, message.upstream)

\* the MessageLog row; response[:200] keeps the opening of the response
log_entry(user_id, message, intent, reply) ==
  [user_id |-> user_id, raw_message |-> message.text, classified_intent |-> intent.intent,
   confidence |-> intent.confidence, response_summary |-> reply.kind]

\* the audit write in its own session: committed, or rolled back and the
\* exception swallowed; not reached when the handler raised
audit(log, entry, handler_raised, write_raises) ==
  IF handler_raised \/ write_raises THEN log ELSE Append(log, entry)

\* the audit exception reaches the caller
process_returns_audit_error(handled, write_raises) ==
  IF handled.raised \/ write_raises THEN Failure ELSE handled.response

\* what process() hands back
process_returns(handled, write_raises) ==
  IF handled.raised THEN Failure ELSE handled.response

Process ==
  \E message \in ProcessMessages, intent \in Classifications, fail \in 0..1,
     write_raises \in BOOLEAN :
    /\ Len(message_log) < MaxMessages
    /\ Len(UserRows(workout_sets, 1)) + 1 <= MaxUserRows
    /\ get_next_batch_id(workout_sets, 1) <= MaxUserBatch
    /\ \E r \in {run_handler(route(intent), exercises, workout_sets, 1, message, today, fail)} :
          /\ exercises' = r.ex
          /\ workout_sets' = r.ws
          /\ message_log' = audit(message_log, log_entry(1, message, intent, r.response),
                                  r.raised, write_raises)
          /\ response' = process_returns(r, write_raises)
          /\ call' = [fn |-> "process", message |-> message, intent |-> intent,
                      handler |-> route(intent), handler_raised |-> r.raised,
                      handler_response |-> r.response,
                      audit_raised |-> ~r.raised /\ write_raises]
    /\ UNCHANGED <<today, op, pre_log, high, alone, in_flight>>

NextProcess == Process

SpecProcess == Init /\ [][NextProcess]_vars

\* ================================================================ claims
\* the request that just ended ran the handler named and changed the state
Ran(kinds) == op'.kind \in kinds /\ vars' # vars

\* C1: the batch ids allocated to a user are strictly increasing in
\* allocation order and start at 1, so an id whose batch was deleted is never
\* allocated again.
C1_BatchIdsNeverReused ==
  [][ (Ran({"log", "repeat"}) /\ op'.batch_ids # <<>>) =>
        /\ \A i \in DOMAIN op'.batch_ids : op'.batch_ids[i] > high[op'.user_id]
        /\ \A i, j \in DOMAIN op'.batch_ids : i < j => op'.batch_ids[i] < op'.batch_ids[j]
        /\ (high[op'.user_id] = 0 => op'.batch_ids[1] = 1) ]_vars

\* C2: in every reachable store, for every (user, batch id, exercise id) the
\* set_number values of the rows are exactly 1..k, without gap or repeat.
SetNumbers(ws, u, b, e) ==
  LET rows == SelectSeq(BatchRows(ws, u, b), LAMBDA r : r.exercise_id = e)
  IN [i \in DOMAIN rows |-> rows[i].set_number]

C2_SetNumbersContiguous ==
  \A u \in Users : \A b \in BatchIds(workout_sets, u) : \A e \in DOMAIN exercises :
    LET numbers == SetNumbers(workout_sets, u, b, e)
    IN /\ Range(numbers) = 1..Len(numbers)
       /\ Cardinality(Range(numbers)) = Len(numbers)

\* C3: a delete by id from a user who holds no row of that batch id, while
\* another user does, answers not-found and changes no row; the owner's
\* delete of that id still succeeds afterwards and removes the owner's rows.
OwnersOf(ws, b) == {a \in Users : BatchRows(ws, a, b) # <<>>}

ById(b) == [trigger |-> FALSE, number |-> b]

C3_ForeignDeleteChangesNothing ==
  [][ (/\ Ran({"delete"})
       /\ op'.target # 0
       /\ op'.user_id \notin OwnersOf(workout_sets, op'.target)
       /\ OwnersOf(workout_sets, op'.target) # {}) =>
        /\ response' = not_found_response(op'.target)
        /\ workout_sets' = workout_sets
        /\ exercises' = exercises
        /\ \A a \in OwnersOf(workout_sets, op'.target) :
             LET r == _handle_delete_workout(exercises', workout_sets', a, ById(op'.target))
             IN /\ r.response.kind = "deleted"
                /\ r.response.count = Len(BatchRows(workout_sets, a, op'.target)) ]_vars

C3_Witness ==
  /\ op.kind = "delete"
  /\ response.kind = "not_found"
  /\ op.user_id \notin OwnersOf(workout_sets, op.target)
  /\ OwnersOf(workout_sets, op.target) # {}

\* C4: for a user who holds no row of a batch id, the delete-by-id response
\* is the same whether other users hold rows of that id or nobody does.
WithoutOthers(ws, u) == UserRows(ws, u)

C4_NotFoundRevealsNothing ==
  \A u \in Users, b \in 1..MaxBatch :
    BatchRows(workout_sets, u, b) = <<>> =>
      _handle_delete_workout(exercises, workout_sets, u, ById(b)).response
        = _handle_delete_workout(exercises, WithoutOthers(workout_sets, u), u, ById(b)).response

C4_Witness ==
  /\ op.kind = "delete"
  /\ response = not_found_response(op.target)
  /\ OwnersOf(workout_sets, op.target) # {}
  /\ \E b \in 1..MaxUserBatch : OwnersOf(workout_sets, b) = {}

\* C5: when a database write raises part-way through a log or a repeat, the
\* request leaves both tables as it found them (no set and no ad-hoc
\* exercise of the request remains) and answers with the failure.
C5_FailedRequestRollsBack ==
  [][ (Ran({"log", "repeat"}) /\ op'.raised) =>
        /\ workout_sets' = workout_sets
        /\ exercises' = exercises
        /\ response'.kind = "error" ]_vars

C5_Witness ==
  /\ op.kind = "repeat"
  /\ op.raised
  /\ op.mods.times > 1
  /\ op.writes >= 1
  /\ response.kind = "error"

\* C6: a successful delete or undo of batch b by user u removes every row
\* with (u, b) and no other row, and the confirmed set count is the number of
\* rows that carried (u, b) before.
C6_DeleteRemovesExactlyTheBatch ==
  [][ (Ran({"delete", "undo"}) /\ response'.kind = "deleted") =>
        LET u == op'.user_id
            b == response'.batch_id
        IN /\ BatchRows(workout_sets, u, b) # <<>>
           /\ BatchRows(workout_sets', u, b) = <<>>
           /\ workout_sets' = SelectSeq(workout_sets, LAMBDA r : r.user_id # u \/ r.batch_id # b)
           /\ response'.count = Len(workout_sets) - Len(workout_sets')
           /\ response'.count = Len(BatchRows(workout_sets, u, b)) ]_vars

C6_Witness ==
  /\ op.kind \in {"delete", "undo"}
  /\ response.kind = "deleted"
  /\ response.count = 2
  /\ \E a \in Users \ {op.user_id} : BatchRows(workout_sets, a, response.batch_id) # <<>>
  /\ UserRows(workout_sets, op.user_id) # <<>>

\* C7: an undo that directly follows a committed log of the same user leaves
\* the table as it was before that log; when the user had no rows then, the
\* workout listing reports no workouts.
C7_LogThenUndoRestores ==
  [][ (/\ Ran({"undo"})
       /\ op.kind = "log" /\ op.batch_ids # <<>>
       /\ op'.user_id = op.user_id) =>
        /\ response'.kind = "deleted"
        /\ response'.batch_id = op.batch_ids[1]
        /\ workout_sets' = pre_log
        /\ (UserRows(pre_log, op.user_id) = <<>> =>
              _handle_list_workouts(exercises', workout_sets', op.user_id).kind = "no_workouts") ]_vars

C7_Witness ==
  /\ op.kind = "undo"
  /\ op.after_log
  /\ response.kind = "deleted"
  /\ UserRows(workout_sets, op.user_id) # <<>>

\* C8: a committed repeat with repetition count k of a latest batch of n sets
\* creates exactly k batches under k distinct batch ids that no row of the
\* user carried, each with n sets of the exercise ids and set numbers of the
\* original batch, and leaves the rows that existed untouched.
ExerciseAndNumber(rows) ==
  LET keys == [i \in DOMAIN rows |-> <<rows[i].exercise_id, rows[i].set_number>>]
  IN SortBy(keys, keys)

C8_RepeatCreatesKBatches ==
  [][ (/\ Ran({"repeat"})
       /\ ~op'.raised
       /\ get_latest_batch_for_user(workout_sets, op'.user_id) # <<>>) =>
        LET u == op'.user_id
            original == get_latest_batch_for_user(workout_sets, u)
            fresh == BatchIds(workout_sets', u) \ BatchIds(workout_sets, u)
        IN /\ Cardinality(fresh) = op'.mods.times
           /\ \A b \in fresh :
                /\ Len(BatchRows(workout_sets', u, b)) = Len(original)
                /\ ExerciseAndNumber(BatchRows(workout_sets', u, b)) = ExerciseAndNumber(original)
           /\ SelectSeq(workout_sets', LAMBDA r : ~(r.user_id = u /\ r.batch_id \in fresh))
                = workout_sets ]_vars

C8_Witness ==
  /\ op.kind = "repeat"
  /\ op.mods.times = 2
  /\ response.kind = "repeated"
  /\ Cardinality(BatchIds(workout_sets, op.user_id)) = 3

\* C9: every set a repeat creates has the exercise, set number, reps,
\* duration, distance and raw name of the original set it copies; its weight
\* and unit are the override when one was parsed and the original's
\* otherwise; its notes are the note of the trigger message or null.
C9_RepeatCopiesFields ==
  [][ (Ran({"repeat"}) /\ op'.batch_ids # <<>>) =>
        LET u == op'.user_id
            mods == op'.mods
            latest == get_latest_batch_for_user(workout_sets, u)
            original == SortBy(latest, [i \in DOMAIN latest |-> <<latest[i].exercise_id, latest[i].set_number>>])
        IN \A b \in Range(op'.batch_ids) :
             LET copies == BatchRows(workout_sets', u, b)
             IN /\ Len(copies) = Len(original)
                /\ \A i \in DOMAIN copies :
                     /\ copies[i].exercise_id = original[i].exercise_id
                     /\ copies[i].set_number = original[i].set_number
                     /\ copies[i].reps = original[i].reps
                     /\ copies[i].duration_minutes = original[i].duration_minutes
                     /\ copies[i].distance = original[i].distance
                     /\ copies[i].raw_exercise_name = original[i].raw_exercise_name
                     /\ (mods.weight # None =>
                           copies[i].weight = mods.weight /\ copies[i].weight_unit = mods.weight_unit)
                     /\ (mods.weight = None =>
                           copies[i].weight = original[i].weight
                             /\ copies[i].weight_unit = original[i].weight_unit)
                     /\ copies[i].notes = mods.note ]_vars

C9_Witness ==
  /\ op.kind = "repeat"
  /\ op.batch_ids # <<>>
  /\ op.mods.weight = None
  /\ op.mods.note = NoneStr
  /\ \E i \in DOMAIN workout_sets :
       /\ workout_sets[i].batch_id = op.target
       /\ workout_sets[i].notes = "sore"
       /\ workout_sets[i].weight_unit = "kg"
  /\ \A i \in DOMAIN workout_sets :
       workout_sets[i].batch_id \in Range(op.batch_ids) =>
         workout_sets[i].notes = NoneStr /\ workout_sets[i].weight_unit = "kg"

\* C10 as claimed: a repeat whose copied weight exceeds the user's earlier
\* maximum for the exercise answers with the "New PR" remark.
NewRows(ws) == SelectSeq(ws, LAMBDA r : r.user_id = op.user_id /\ r.batch_id \in Range(op.batch_ids))

EarlierMax(ws, e) ==
  SetMax({ws[i].weight : i \in {j \in DOMAIN ws : /\ ws[j].user_id = op.user_id
                                                  /\ ws[j].exercise_id = e
                                                  /\ ws[j].batch_id \notin Range(op.batch_ids)}})

RepeatBeatsEarlierMax ==
  /\ op.kind = "repeat"
  /\ op.batch_ids # <<>>
  /\ \E i \in DOMAIN NewRows(workout_sets) :
       LET r == NewRows(workout_sets)[i]
       IN /\ EarlierMax(workout_sets, r.exercise_id) > 0
          /\ r.weight > EarlierMax(workout_sets, r.exercise_id)

C10_RepeatRemarksOnPR == RepeatBeatsEarlierMax => response.comment.kind = "pr"

\* C10 as amended: a repeat response is the header and the lines of the
\* copied sets and carries no remark, also when the copied weight exceeds
\* the earlier maximum; the commentary engine runs for logs only.
C10_RepeatCarriesNoRemark ==
  op.kind = "repeat" =>
    /\ response.comment = NoRemark
    /\ (response.kind = "repeated" => response.count = Len(NewRows(workout_sets)))

C10_Witness ==
  /\ RepeatBeatsEarlierMax
  /\ response.kind = "repeated"
  /\ response.comment = NoRemark

\* C11: the commentary returns one remark by fixed priority over the logged
\* exercises: PR if any exercise qualifies, else first-time, else gap, else
\* weight-increase, else pain-note, else none; none for no logged sets.
SetsOf(logged_sets, e) == SelectSeq(logged_sets, LAMBDA s : s.exercise_id = e)

HistoryOf(history, e) == SelectSeq(history, LAMBDA r : r.exercise_id = e)

Weights(rows) == {rows[i].weight : i \in {j \in DOMAIN rows : rows[j].weight # None /\ rows[j].weight # 0}}

Weighted(logged_sets, e) ==
  ~SetsOf(logged_sets, e)[1].is_cardio /\ SetsOf(logged_sets, e)[1].weight \notin {None, 0}

QualifiesPR(logged_sets, history, e) ==
  /\ Weighted(logged_sets, e)
  /\ Weights(HistoryOf(history, e)) # {}
  /\ \E w \in Weights(SetsOf(logged_sets, e)) : \A h \in Weights(HistoryOf(history, e)) : w > h

QualifiesFirst(logged_sets, history, e) == HistoryOf(history, e) = <<>>

QualifiesGap(logged_sets, history, now, e) ==
  /\ HistoryOf(history, e) # <<>>
  /\ \A i \in DOMAIN HistoryOf(history, e) : now - HistoryOf(history, e)[i].set_date > GapDays

QualifiesUp(logged_sets, history, e) ==
  /\ Weighted(logged_sets, e)
  /\ HistoryOf(history, e) # <<>>
  /\ HistoryOf(history, e)[1].weight \notin {None, 0}
  /\ SetsOf(logged_sets, e)[1].weight > HistoryOf(history, e)[1].weight

QualifiesPain(logged_sets) ==
  \E i \in DOMAIN logged_sets : logged_sets[i].notes \in {"sore", "knee pain", "hurt"}

LoggedIds(logged_sets) == {logged_sets[i].exercise_id : i \in DOMAIN logged_sets}

ExpectedKind(logged_sets, history, now) ==
  LET ids == LoggedIds(logged_sets)
  IN IF logged_sets = <<>> THEN "none"
     ELSE IF \E e \in ids : QualifiesPR(logged_sets, history, e) THEN "pr"
     ELSE IF \E e \in ids : QualifiesFirst(logged_sets, history, e) THEN "first"
     ELSE IF \E e \in ids : QualifiesGap(logged_sets, history, now, e) THEN "gap"
     ELSE IF \E e \in ids : QualifiesUp(logged_sets, history, e) THEN "up"
     ELSE IF QualifiesPain(logged_sets) THEN "pain"
     ELSE "none"

C11_RemarkByPriority ==
  call.fn = "_generate_log_comment" =>
    /\ call.result.kind = ExpectedKind(call.logged_sets, call.history, call.now)
    /\ (call.result.kind \in {"pr", "first", "up"} =>
          \E i \in DOMAIN call.logged_sets : call.logged_sets[i].name = call.result.name)

C11_Witness ==
  /\ call.fn = "_generate_log_comment"
  /\ call.result.kind = "pr"
  /\ \E e \in LoggedIds(call.logged_sets) : QualifiesUp(call.logged_sets, call.history, e)
  /\ \E e \in LoggedIds(call.logged_sets) : QualifiesFirst(call.logged_sets, call.history, e)
  /\ QualifiesPain(call.logged_sets)

\* C12: a log response that carries "New PR on X!" implies that the largest
\* weight of X in the new batch is greater than the weight of every set of X
\* the user had persisted before, however many and however old.
NamedExercise(name) == CHOOSE e \in DOMAIN exercises : exercises[e].name = name

BatchSetsOf(e) ==
  SelectSeq(workout_sets, LAMBDA r : /\ r.user_id = op.user_id /\ r.exercise_id = e
                                     /\ r.batch_id \in Range(op.batch_ids))

EarlierSetsOf(e) ==
  SelectSeq(workout_sets, LAMBDA r : /\ r.user_id = op.user_id /\ r.exercise_id = e
                                     /\ r.batch_id \notin Range(op.batch_ids))

C12_PRBeatsEveryEarlierSet ==
  (op.kind = "log" /\ response.kind = "logged" /\ response.comment.kind = "pr") =>
    LET e == NamedExercise(response.comment.name)
    IN \E w \in Weights(BatchSetsOf(e)) : \A h \in Weights(EarlierSetsOf(e)) : w > h

\* C13: a log response that carries "First time logging X." implies that
\* the user has no persisted set of X outside the batch just written.
C13_FirstTimeHasNoEarlierSet ==
  (op.kind = "log" /\ response.kind = "logged" /\ response.comment.kind = "first") =>
    EarlierSetsOf(NamedExercise(response.comment.name)) = <<>>

\* C14: _expand_sets replaces an entry whose name occurs once and whose
\* set_number is N > 1 by N entries numbered 1..N, equal in every other
\* field; every other entry is returned as it is; the order is kept.
Occurrences(exs, name) == Cardinality({i \in DOMAIN exs : exs[i].exercise_name = name})

IsExpanded(exs, i) == Occurrences(exs, exs[i].exercise_name) = 1 /\ exs[i].set_number > 1

BlockLen(exs, i) == IF IsExpanded(exs, i) THEN exs[i].set_number ELSE 1

RECURSIVE BlockStart(_, _)
BlockStart(exs, i) == IF i = 1 THEN 0 ELSE BlockStart(exs, i - 1) + BlockLen(exs, i - 1)

C14_ExpandSets ==
  call.fn = "_expand_sets" =>
    LET exs == call.exercises
        out == call.result
    IN /\ Len(out) = BlockStart(exs, Len(exs) + 1)
       /\ \A i \in DOMAIN exs : \A k \in 1..BlockLen(exs, i) :
            out[BlockStart(exs, i) + k] =
              IF IsExpanded(exs, i) THEN [exs[i] EXCEPT !.set_number = k] ELSE exs[i]

C14_Witness ==
  /\ call.fn = "_expand_sets"
  /\ \E i, j, k \in DOMAIN call.exercises :
       /\ i < j /\ j < k
       /\ IsExpanded(call.exercises, i)
       /\ call.exercises[j].exercise_name = call.exercises[k].exercise_name
       /\ call.exercises[j].set_number > 1
  /\ Len(call.result) = 4

\* C15: the reps defaulting sets reps to 10 and flags the index for exactly
\* the sets without a duration whose reps are null or zero; a set with a
\* duration and a set with positive reps are neither altered nor flagged.
C15_RepsDefaulting ==
  call.fn = "defaulted_reps" =>
    /\ Len(call.result) = Len(call.exercises)
    /\ \A i \in DOMAIN call.exercises :
         LET in == call.exercises[i]
             flagged == in.duration_minutes = None /\ in.reps \in {None, 0}
         IN /\ (i \in call.defaulted_reps) <=> flagged
            /\ call.result[i] = IF flagged THEN [in EXCEPT !.reps = 10] ELSE in

C15_Witness ==
  /\ call.fn = "defaulted_reps"
  /\ \E i, j, k \in DOMAIN call.exercises :
       /\ i \in call.defaulted_reps /\ call.result[i].reps = 10
       /\ call.exercises[j].duration_minutes = 20 /\ call.result[j].reps = None
       /\ call.exercises[k].reps = 8 /\ call.result[k].reps = 8
       /\ {j, k} \cap call.defaulted_reps = {}

\* C16: a raw name without an exact catalog entry is stored under a
\* highest-scoring catalog exercise exactly when that Jaccard score is at
\* least 1/2; otherwise, and for an empty catalog, a new exercise with the raw
\* name and muscle group "general" is created and the set stored under it;
\* "chest pull" is never stored under "Chest Press".
Tokens(name) == {Lower(name[i]) : i \in DOMAIN name}

\* |a /\ b| / |a \/ b| >= 1/2 and |a /\ b| / |a \/ b| >= |a /\ c| / |a \/ c|
HalfOrMore(a, b) == 2 * Cardinality(Tokens(a) \cap Tokens(b)) >= Cardinality(Tokens(a) \cup Tokens(b))

NotLess(a, b, c) ==
  Cardinality(Tokens(a) \cap Tokens(b)) * Cardinality(Tokens(a) \cup Tokens(c))
    >= Cardinality(Tokens(a) \cap Tokens(c)) * Cardinality(Tokens(a) \cup Tokens(b))

BestMatches(catalog, raw) ==
  {i \in DOMAIN catalog : \A j \in DOMAIN catalog : NotLess(raw, catalog[i].name, catalog[j].name)}

C16_MatchAtHalfOrCreate ==
  (call.fn = "log_set" /\ \A i \in DOMAIN call.catalog : call.catalog[i].name # call.ex_set.exercise_name) =>
    LET catalog == call.catalog
        raw == call.ex_set.exercise_name
        after == call.result.sess.ex
        row == call.result.sess.ws[1]
        best == BestMatches(catalog, raw)
    IN /\ Len(call.result.sess.ws) = 1
       /\ IF \E i \in best : HalfOrMore(raw, catalog[i].name)
            THEN after = catalog /\ row.exercise_id \in {catalog[i].id : i \in best}
            ELSE /\ after = Append(catalog, [id |-> Len(catalog) + 1, name |-> raw,
                                             muscle_group |-> "general"])
                 /\ row.exercise_id = Len(catalog) + 1
       /\ (raw = chest_pull => after[row.exercise_id].name # ChestPress)

C16_Witness ==
  /\ call.fn = "log_set"
  /\ call.catalog = SeedExercises
  /\ call.ex_set.exercise_name = chest_pull
  /\ Len(call.result.sess.ex) = 3
  /\ call.result.sess.ex[3] = [id |-> 3, name |-> chest_pull, muscle_group |-> "general"]
  /\ call.result.sess.ws[1].exercise_id = 3

\* C17: whatever has been logged, no two rows of the exercises table share a
\* name, a novel name (one no seeded exercise matches) owns at most one row,
\* created on its first mention, and every set logged under that name,
\* in the same batch or a later one, points at that row.
NovelNames ==
  {s.exercise_name : s \in {x \in ExtractedSets :
      /\ get_by_name(SeedExercises, x.exercise_name) = <<>>
      /\ \A i \in DOMAIN SeedExercises : ~HalfOrMore(x.exercise_name, SeedExercises[i].name)}}

C17_OneExercisePerNovelName ==
  /\ \A i, j \in DOMAIN exercises : exercises[i].name = exercises[j].name => i = j
  /\ \A n \in NovelNames : Cardinality({i \in DOMAIN exercises : exercises[i].name = n}) <= 1
  /\ \A k \in DOMAIN workout_sets :
        workout_sets[k].raw_exercise_name \in NovelNames =>
          /\ workout_sets[k].exercise_id \in DOMAIN exercises
          /\ exercises[workout_sets[k].exercise_id].name = workout_sets[k].raw_exercise_name

C17_Witness ==
  /\ NovelNames = {chest_pull}
  /\ Len(exercises) = Len(SeedExercises) + 1
  /\ exercises[Len(exercises)].name = chest_pull
  /\ \E k, l, m \in DOMAIN workout_sets :
        /\ k # l /\ l # m /\ k # m
        /\ \A x \in {k, l, m} : /\ workout_sets[x].raw_exercise_name = chest_pull
                                 /\ workout_sets[x].exercise_id = Len(exercises)
        /\ workout_sets[k].batch_id = workout_sets[l].batch_id
        /\ workout_sets[m].batch_id > workout_sets[l].batch_id
  /\ op.kind = "log"

\* C18: a message classified log_workout with confidence at most 0.5 is
\* handled by coaching and changes neither table; with confidence above 0.5
\* it is handled by the Workout Logger, which stores the extracted sets unless
\* a write raises.
C18_LowConfidenceLogIsCoaching ==
  [][(call'.fn = "process" /\ call'.intent.intent = "log_workout") =>
       IF call'.intent.confidence <= 50
         THEN /\ call'.handler = "_handle_coaching"
              /\ response'.kind \in {"coaching", "coaching_failed"}
              /\ workout_sets' = workout_sets
              /\ exercises' = exercises
         ELSE /\ call'.handler = "_handle_log_workout"
              /\ response'.kind \in {"logged", "no_extract", "error"}
              /\ (call'.message.extracted # <<>> /\ ~call'.handler_raised) =>
                   /\ response'.kind = "logged"
                   /\ Len(workout_sets') = Len(workout_sets) + Len(call'.message.extracted)]_vars

C18_Witness ==
  /\ call.fn = "process"
  /\ call.intent = Intent("log_workout", 50)
  /\ call.message.extracted # <<>>
  /\ response.kind = "coaching"
  /\ workout_sets # <<>>
  /\ message_log # <<>>
  /\ message_log[Len(message_log)].classified_intent = "log_workout"
  /\ message_log[Len(message_log)].response_summary = "coaching"

\* C19: when the MessageLog write raises after the handler has answered,
\* process returns the handler's response, no error, the log gains no row,
\* and a batch the handler wrote is in the table.
C19_AuditFailureSwallowed ==
  [][(call'.fn = "process" /\ call'.audit_raised) =>
       /\ response' = call'.handler_response
       /\ response'.kind # "error"
       /\ message_log' = message_log
       /\ response'.kind = "logged" =>
            /\ response'.count > 0
            /\ Len(SelectSeq(workout_sets', LAMBDA r : r.batch_id = response'.batch_id))
                 = response'.count
            /\ SelectSeq(workout_sets, LAMBDA r : r.batch_id = response'.batch_id) = <<>>]_vars

C19_Witness ==
  /\ call.fn = "process"
  /\ call.audit_raised
  /\ call.handler = "_handle_log_workout"
  /\ response.kind = "logged"
  /\ message_log = <<>>
  /\ \E k \in DOMAIN workout_sets : workout_sets[k].batch_id = response.batch_id

\* C20: when the first upstream call of classify_intent ends in a connection
\* or timeout error, the call is attempted again, at most 3 times in all, the
\* keyword classification is returned only after the third attempt, and no
\* exception leaves classify_intent.
C20_RetriesThenFallback ==
  (call.fn = "classify_intent" /\ call.upstream[1] \in Transient) =>
    /\ call.result.raised = "none"
    /\ call.result.attempts <= 3
    /\ call.result.fallback => call.result.attempts = 3
    /\ (call.upstream[2] = "ok") => call.result.result = call.message.answer

C22_NoExceptionTextInResponse ==
  call.fn = "process" => response.error = NoneStr

NamedRows(ws, ex) ==
  [i \in DOMAIN ws |->
     [ws[i] EXCEPT !.exercise_id = IF @ \in DOMAIN ex THEN ex[@].name ELSE <<>>]]

\* C23: what a request of user 1 answers, and the rows user 1 holds after it
\* (each with the name of its exercise), are what they would be had user 2
\* never sent a message.
C23_UsersIndependent ==
  (op.user_id = 1 /\ op.kind \in {"log", "undo"}) =>
    /\ response = alone.response
    /\ NamedRows(UserRows(workout_sets, 1), exercises) = NamedRows(alone.ws, alone.ex)

\* C24: a log request that read its batch id while another request of the
\* same user was open commits its sets under that id even when the other
\* request has committed the same id in between: the commit is not refused
\* and the group then holds the sets of both.
C24_OverlappingLogsShareBatchId ==
  [][\A r \in 1..MaxRequests :
       (in_flight[r].pc = "open" /\ in_flight'[r].pc = "idle") =>
         /\ response'.kind = "logged"
         /\ response'.batch_id = in_flight[r].batch_id
         /\ Len(BatchRows(workout_sets', 1, in_flight[r].batch_id))
              = Len(BatchRows(workout_sets, 1, in_flight[r].batch_id)) + Len(in_flight[r].extracted)]_vars

\* every event of RaceExtractions writes one set: a group of two is two events
C24_Witness ==
  /\ op.kind = "log"
  /\ \A r \in 1..MaxRequests : in_flight[r].pc = "idle"
  /\ \E i, j \in DOMAIN workout_sets :
       /\ i # j
       /\ workout_sets[i].batch_id = workout_sets[j].batch_id
       /\ workout_sets[i].user_id = workout_sets[j].user_id
       /\ workout_sets[i].exercise_id # workout_sets[j].exercise_id
  /\ \A e \in RaceExtractions : Len(_expand_sets(e)) = 1

DateSet(dates) == {dates[i] : i \in DOMAIN dates}

\* C25: for every list of workout dates, the streak is the number of days
\* today, today - 1, ... that are all in the list, up to the first day that is
\* missing: 0 when today is missing, whatever lies before the gap.
C25_StreakIsRunEndingToday ==
  call.fn = "_compute_consistency" =>
    /\ call.result.streak \in 0..Len(call.dates_90)
    /\ \A i \in 0..(call.result.streak - 1) : (today - i) \in DateSet(call.dates_90)
    /\ (today - call.result.streak) \notin DateSet(call.dates_90)

C25_Witness ==
  /\ call.fn = "_compute_consistency"
  /\ call.dates_90 = <<today - 3, today, today - 1>>
  /\ call.result.streak = 2

AsksLatest == {DeleteTexts.undo, DeleteTexts.UNDO_1, DeleteTexts.delete_last, DeleteTexts.blast_1, DeleteTexts.delete}

\* the batch each of the other messages names, read off the message by hand
Target(text) ==
  CASE text = DeleteTexts.delete_hash_2 -> 2
    [] text = DeleteTexts.delete_1 -> 1
    [] text = DeleteTexts.rm_2_1 -> 2
    [] text = DeleteTexts.delete_0 -> 0 - 1
    [] text = DeleteTexts.del_hash_12 -> 12

Without(ws, b) == SelectSeq(ws, LAMBDA r : ~(r.user_id = 1 /\ r.batch_id = b))

\* C26: a delete message that contains "undo" or "last", or no digit, removes
\* the user's batch with the highest id, also when it holds a number; any
\* other removes the batch named by the first integer of the message; with
\* no batch at all the answer is nothing-to-delete and no row changes.
C26_DeleteTarget ==
  [][(call'.fn = "_handle_delete_workout" /\ op'.kind = "delete") =>
       IF call'.message \in AsksLatest
         THEN IF workout_sets = <<>>
                THEN response'.kind = "nothing_to_delete" /\ workout_sets' = workout_sets
                ELSE /\ workout_sets' = Without(workout_sets, SetMax(BatchIds(workout_sets, 1)))
                     /\ response'.kind = "deleted"
                     /\ response'.batch_id = SetMax(BatchIds(workout_sets, 1))
         ELSE /\ workout_sets' = Without(workout_sets, Target(call'.message))
              /\ response'.kind = "deleted" <=> Target(call'.message) \in BatchIds(workout_sets, 1)]_vars

C26_Witness ==
  /\ call.fn = "_handle_delete_workout"
  /\ op.kind = "delete"
  /\ call.message = DeleteTexts.UNDO_1
  /\ response.kind = "deleted"
  /\ response.batch_id = 2
  /\ BatchIds(workout_sets, 1) = {1}

\* C27 (as claimed): the commentary returns the same remark for every
\* ordering of the history list, the one with the newest set first included.
C27_RemarkIgnoresHistoryOrder ==
  call.fn = "reordered" => call.result = call.sorted_result

LatestRows(history, e) ==
  {r \in Range(HistoryOf(history, e)) :
     \A i \in DOMAIN HistoryOf(history, e) : r.set_date >= HistoryOf(history, e)[i].set_date}

\* C27 (amended): the weight-increase rule compares the logged weight with
\* the first set of that exercise in the history list as given; the remark is
\* the one of the fixed priority with that reading, and with the list newest
\* first a weight-increase remark rests on a set of the latest date.
C27_UpComparesFirstListed ==
  call.fn = "reordered" =>
    /\ call.result.kind = ExpectedKind(call.logged_sets, call.history, today)
    /\ call.sorted_result.kind = "up" =>
         \E e \in LoggedIds(call.logged_sets) :
           /\ Weighted(call.logged_sets, e)
           /\ \E r \in LatestRows(call.history, e) :
                r.weight \notin {None, 0} /\ SetsOf(call.logged_sets, e)[1].weight > r.weight

C27_Witness ==
  /\ call.fn = "reordered"
  /\ call.result.kind = "up"
  /\ call.sorted_result.kind # "up"
  /\ \E e \in LoggedIds(call.logged_sets) :
       HistoryOf(call.history, e)[1] \notin LatestRows(call.history, e)

OverviewDates == {r.set_date : r \in Range(get_latest_batches(workout_sets, 1, 20))}

\* C28: the overview shows the three most recent distinct calendar days
\* found among the sets of the user's latest 20 batches, one heading per day,
\* also when a batch carries a past date.
C28_OverviewShowsLatestDays ==
  (op.kind = "overview" /\ response.kind = "overview") =>
    {response.lines[i].dates : i \in DOMAIN response.lines}
      = {{d} : d \in {x \in OverviewDates : Cardinality({y \in OverviewDates : y > x}) < 3}}

\* C30: whenever the user has a previous batch, a repeat creates at least one
\* new batch and answers with a confirmation naming it, whatever repetition
\* count the message carries, and does not raise.
C30_RepeatAlwaysCreatesBatch ==
  (op.kind = "repeat" /\ op.target # 0 /\ ~op.raised) =>
    /\ op.batch_ids # <<>>
    /\ response.kind = "repeated"
    /\ response.batch_id \in Range(op.batch_ids)

\* C29: with the requests of a user handled one after the other, a log and
\* every repetition of a repeat write under a batch id that no row of that
\* user carried before the request, the ids of one repeat differ from each
\* other, and the user's earlier batches keep exactly their rows; also after
\* deletes.
C29_FreshBatchId ==
  [][(op'.kind \in {"log", "repeat"} /\ op'.batch_ids # <<>>) =>
       /\ \A i \in DOMAIN op'.batch_ids :
            /\ op'.batch_ids[i] \notin BatchIds(workout_sets, op'.user_id)
            /\ BatchRows(workout_sets', op'.user_id, op'.batch_ids[i]) # <<>>
            /\ \A j \in DOMAIN op'.batch_ids : j # i => op'.batch_ids[j] # op'.batch_ids[i]
       /\ \A b \in BatchIds(workout_sets, op'.user_id) :
            BatchRows(workout_sets', op'.user_id, b) = BatchRows(workout_sets, op'.user_id, b)]_vars

\* a log that received batch id 1 after the user's batches 1 and 2 were deleted
C29_Witness ==
  /\ op.kind = "log"
  /\ op.batch_ids = <<1>>
  /\ high[op.user_id] = 2
  /\ BatchIds(workout_sets, op.user_id) = {1}

====
